---------------------------- MODULE Spec2Model ----------------------------
(***************************************************************************)
(* Model of the OhmicCAD circuit solver (src/services/Solver.ts) and of    *)
(* the tick loop that drives it (src/App.tsx).                             *)
(*                                                                         *)
(* JavaScript numbers are modelled as decimal floating-point values with   *)
(* Digits significant digits, round-to-nearest, overflow to +/-Infinity    *)
(* above 1.797e308, underflow to 0 below 1e-324, and the IEEE-754 rules    *)
(* for NaN and Infinity.  A value is a record [k, m, e]:                   *)
(*   k = "fin"   : the number m * 10^e, m = 0 /\ e = 0 or                  *)
(*                 10^(Digits-1) <= |m| < 10^Digits                        *)
(*   k = "inf"   : +Infinity (m = 1) or -Infinity (m = -1)                 *)
(*   k = "nan"   : NaN                                                     *)
(*   k = "undef" : the JavaScript value undefined (an absent field)        *)
(* The sign of zero is not modelled (-0 and 0 compare equal in the code).  *)
(***************************************************************************)
EXTENDS Integers, Sequences, FiniteSets, TLC

\* significant decimal digits of the modelled number type (at most 8, so
\* that every intermediate value fits a 32-bit integer)
Digits == 7

\* ------------------------------------------------------------------------
\* number type
\* ------------------------------------------------------------------------
P10 == <<10, 100, 1000, 10000, 100000, 1000000, 10000000, 100000000, 1000000000>>

Pow10(n) == IF n = 0 THEN 1 ELSE P10[n]

IAbs(i) == IF i < 0 THEN -i ELSE i

Sgn(i) == IF i < 0 THEN -1 ELSE IF i > 0 THEN 1 ELSE 0

IMin(a, b) == IF a < b THEN a ELSE b

\* F at the value of v, with v evaluated first (one step of a loop after the
\* step before it has finished)
Then(v, F(_)) == CHOOSE r \in {F(x) : x \in {v}} : TRUE

NumDigits(m) ==
    IF m < 10 THEN 1 ELSE IF m < 100 THEN 2 ELSE IF m < 1000 THEN 3
    ELSE IF m < 10000 THEN 4 ELSE IF m < 100000 THEN 5
    ELSE IF m < 1000000 THEN 6 ELSE IF m < 10000000 THEN 7
    ELSE IF m < 100000000 THEN 8 ELSE IF m < 1000000000 THEN 9 ELSE 10

Zero == [k |-> "fin", m |-> 0, e |-> 0]

NaN == [k |-> "nan", m |-> 0, e |-> 0]

Undef == [k |-> "undef", m |-> 0, e |-> 0]

Inf(s) == [k |-> "inf", m |-> s, e |-> 0]

RECURSIVE Call(_, _)

\* The operations on numbers. Each one is evaluated by Call, which selects the
\* definition of the operation by its name.
\* round the magnitude m * 10^e (0 <= m < 2^31) to Digits digits, ties to even
Norm(s, m, e) == Call("Norm", <<s, m, e>>)

\* a * b
FMul(a, b) == Call("FMul", <<a, b>>)

\* a / b
FDiv(a, b) == Call("FDiv", <<a, b>>)

\* a + b
FAdd(a, b) == Call("FAdd", <<a, b>>)

\* Math.sqrt(a)
FSqrt(a) == Call("FSqrt", <<a>>)

\* Math.sin(a)
FSin(a) == Call("FSin", <<a>>)

\* the range of a double: overflow to Infinity, underflow to 0
Range(s, q, ex) ==
    LET dexp == ex + Digits - 1
    IN  IF dexp > 308 \/ (dexp = 308 /\ q \div Pow10(Digits - 4) > 1797) THEN Inf(s)
        ELSE IF dexp < -324 THEN Zero
        ELSE [k |-> "fin", m |-> s * q, e |-> ex]

RoundDigits(s, m, e) ==
    IF m = 0 THEN Zero
    ELSE LET sh == NumDigits(m) - Digits
             q0 == IF sh > 0 THEN m \div Pow10(sh) ELSE m * Pow10(-sh)
             r  == IF sh > 0 THEN m % Pow10(sh) ELSE 0
             half == IF sh > 0 THEN 5 * Pow10(sh - 1) ELSE 1
             up == sh > 0 /\ (r > half \/ (r = half /\ q0 % 2 = 1))
             q1 == IF up THEN q0 + 1 ELSE q0
             carry == (q1 = Pow10(Digits))
             q  == IF carry THEN Pow10(Digits - 1) ELSE q1
         IN  Range(s, q, e + sh + (IF carry THEN 1 ELSE 0))

\* the literal m * 10^e, for m of at most Digits digits
Dec(m, e) ==
    IF m = 0 THEN Zero
    ELSE LET sh == Digits - NumDigits(IAbs(m))
         IN  [k |-> "fin", m |-> m * Pow10(sh), e |-> e - sh]

IsNaN(a) == a.k \in {"nan", "undef"}

IsFinite(a) == a.k = "fin"

\* JavaScript truthiness of a number or undefined: a || d
Or(a, d) == IF IsNaN(a) \/ (a.k = "fin" /\ a.m = 0) THEN d ELSE a

FNeg(a) == IF a.k \in {"fin", "inf"} THEN [a EXCEPT !.m = -a.m] ELSE NaN

FAbs(a) == IF a.k \in {"fin", "inf"} THEN [a EXCEPT !.m = IAbs(a.m)] ELSE NaN

\* a mark that a nonzero remainder was dropped below the guard digits
Sticky(m, dropped) == IF dropped /\ m % 10 \in {0, 5} THEN m + 1 ELSE m

\* the exact product of two integers below 10^9 and 10^8, as <<hi, lo>> in
\* base 10^8
WideMul(x, y) ==
    LET xh == x \div 10000
        xl == x % 10000
        yh == y \div 10000
        yl == y % 10000
        mid == xh * yl + xl * yh
        los == (mid % 10000) * 10000 + xl * yl
    IN  <<xh * yh + mid \div 10000 + los \div 100000000, los % 100000000>>

Product(a, b) ==
    IF IsNaN(a) \/ IsNaN(b) THEN NaN
    ELSE IF a.k = "inf" \/ b.k = "inf"
         THEN IF a.m = 0 \/ b.m = 0 THEN NaN ELSE Inf(Sgn(a.m) * Sgn(b.m))
    ELSE IF a.m = 0 \/ b.m = 0 THEN Zero
    ELSE LET w == WideMul(IAbs(a.m), IAbs(b.m))
             s == Sgn(a.m) * Sgn(b.m)
             t == 9 - NumDigits(w[1])
         IN  IF w[1] = 0 THEN Norm(s, w[2], a.e + b.e)
             ELSE Norm(s, Sticky(w[1] * Pow10(t) + w[2] \div Pow10(8 - t),
                                 w[2] % Pow10(8 - t) # 0),
                       a.e + b.e + 8 - t)

RECURSIVE LongDiv(_, _, _, _)
\* n further digits of the quotient q with remainder r of a division by d
LongDiv(q, r, d, n) ==
    IF n = 0 THEN <<q, r>>
    ELSE LongDiv(q * 10 + (r * 10) \div d, (r * 10) % d, d, n - 1)

Quotient(a, b) ==
    IF IsNaN(a) \/ IsNaN(b) THEN NaN
    ELSE IF a.k = "inf"
         THEN IF b.k = "inf" THEN NaN
              ELSE Inf(Sgn(a.m) * (IF b.m < 0 THEN -1 ELSE 1))
    ELSE IF b.k = "inf" THEN Zero
    ELSE IF b.m = 0 THEN (IF a.m = 0 THEN NaN ELSE Inf(Sgn(a.m)))
    ELSE IF a.m = 0 THEN Zero
    ELSE LET ma == IAbs(a.m)
             mb == IAbs(b.m)
             small == ma < mb
             num == IF small THEN ma * 10 ELSE ma
             qr == LongDiv(num \div mb, num % mb, mb, Digits)
         IN  Norm(Sgn(a.m) * Sgn(b.m), Sticky(qr[1], qr[2] # 0),
                  a.e - b.e - Digits - (IF small THEN 1 ELSE 0))

Sum(a, b) ==
    IF IsNaN(a) \/ IsNaN(b) THEN NaN
    ELSE IF a.k = "inf"
         THEN IF b.k = "inf" /\ b.m # a.m THEN NaN ELSE a
    ELSE IF b.k = "inf" THEN b
    ELSE IF a.m = 0 THEN b
    ELSE IF b.m = 0 THEN a
    ELSE LET hi == IF a.e >= b.e THEN a ELSE b
             lo == IF a.e >= b.e THEN b ELSE a
             d  == hi.e - lo.e
             g  == IMin(d, 9 - Digits)
             low == IF d - g >= Digits THEN 0
                    ELSE Sgn(lo.m) * (IAbs(lo.m) \div Pow10(d - g))
             sum == hi.m * Pow10(g) + low
         IN  Norm(Sgn(sum), IAbs(sum), hi.e - g)

FSub(a, b) == FAdd(a, FNeg(b))

\* a < b as the code's comparison operators decide it (false on NaN)
FLt(a, b) ==
    IF IsNaN(a) \/ IsNaN(b) THEN FALSE
    ELSE IF a.k = "inf" THEN a.m < 0 /\ ~(b.k = "inf" /\ b.m < 0)
    ELSE IF b.k = "inf" THEN b.m > 0
    ELSE IF Sgn(a.m) # Sgn(b.m) THEN Sgn(a.m) < Sgn(b.m)
    ELSE IF a.m = 0 THEN FALSE
    ELSE IF a.m > 0 THEN a.e < b.e \/ (a.e = b.e /\ a.m < b.m)
    ELSE a.e > b.e \/ (a.e = b.e /\ a.m < b.m)

FGt(a, b) == FLt(b, a)

\* Math.max of two values
FMax(a, b) == IF IsNaN(a) \/ IsNaN(b) THEN NaN ELSE IF FLt(a, b) THEN b ELSE a

WideLe(v, w) == v[1] < w[1] \/ (v[1] = w[1] /\ v[2] <= w[2])

RECURSIVE SqrtSearch(_, _, _)
\* the largest q = q0 + (digits below 10^(p+1)) with q * q <= t
SqrtSearch(q0, p, t) ==
    IF p < 0 THEN q0
    ELSE LET d == CHOOSE c \in 0..9 :
                    /\ WideLe(WideMul(q0 + c * Pow10(p), q0 + c * Pow10(p)), t)
                    /\ \A b \in (c + 1)..9 :
                          ~WideLe(WideMul(q0 + b * Pow10(p), q0 + b * Pow10(p)), t)
         IN  SqrtSearch(q0 + d * Pow10(p), p - 1, t)

SquareRoot(a) ==
    IF IsNaN(a) THEN NaN
    ELSE IF a.k = "inf" THEN (IF a.m > 0 THEN a ELSE NaN)
    ELSE IF a.m < 0 THEN NaN
    ELSE IF a.m = 0 THEN Zero
    ELSE LET s == IF (a.e - (Digits - 1)) % 2 = 0 THEN Digits - 1 ELSE Digits
             t == WideMul(a.m, Pow10(s))
             q == SqrtSearch(0, Digits - 1, t)
             qq == WideMul(q, q)
             \* round up when (q + 1/2)^2 < t, i.e. q*q + q < t
             los == qq[2] + q
             mark == <<qq[1] + los \div 100000000, los % 100000000>>
             up == ~WideLe(t, mark)
         IN  Norm(1, IF up THEN q + 1 ELSE q, (a.e - s) \div 2)


\* ------------------------------------------------------------------------
\* program constants (src/services/Solver.ts)
\* ------------------------------------------------------------------------
G_MIN == Dec(1, -12)

R_CLOSED_SWITCH == Dec(1, -3)

R_OPEN_SWITCH == Dec(1, 12)

MAX_ITERATIONS == 50

R_Ideal == Dec(1, -4)

\* a threshold that takes every pivot below 1e-3 for missing
PivotThresholdLoose == Dec(1, -3)

PivotThreshold == Dec(1, -20)

One == Dec(1, 0)

\* ------------------------------------------------------------------------
\* data model (types: ComponentModel, WireModel, SimData, ComponentProps)
\* ------------------------------------------------------------------------
\* simData of a newly added component or wire
NewSimData ==
    [voltage |-> Zero, current |-> Zero, power |-> Zero, resistance |-> Undef,
     storedVoltage |-> Undef, storedCurrent |-> Undef,
     vPk |-> Undef, vRms |-> Undef, iPk |-> Undef, iRms |-> Undef,
     vSqSum |-> Undef, iSqSum |-> Undef]

SimFields == DOMAIN NewSimData

NoProps ==
    [voltage |-> Undef, resistance |-> Undef, closed |-> FALSE,
     capacitance |-> Undef, capacitanceUnit |-> "", inductance |-> Undef,
     amplitude |-> Undef, frequency |-> Undef, diodeType |-> "",
     voltageDrop |-> Undef, zenerVoltage |-> Undef]

Comp(id, type, props) == [id |-> id, type |-> type, props |-> props, simData |-> NewSimData]

Wire(a, pa, b, pb) ==
    [compAId |-> a, portAIndex |-> pa, compBId |-> b, portBIndex |-> pb,
     simData |-> NewSimData]

IsSource(c) == c.type \in {"battery", "ac_source"}

\* components.filter(Battery or ACSource), as the sequence of their ids
RECURSIVE VoltageSources(_)
VoltageSources(comps) ==
    IF comps = <<>> THEN <<>>
    ELSE (IF IsSource(Head(comps)) THEN <<Head(comps).id>> ELSE <<>>)
         \o VoltageSources(Tail(comps))

InSeq(x, s) == \E i \in 1..Len(s) : s[i] = x

AddPort(pl, key) == IF InSeq(key, pl) THEN pl ELSE Append(pl, key)

RECURSIVE PortList(_, _)
\* Array.from(allPorts): port keys <<id, port>> in insertion order
PortList(comps, acc) ==
    IF comps = <<>> THEN acc
    ELSE LET c == Head(comps)
             a0 == AddPort(acc, <<c.id, 0>>)
             a1 == IF c.type # "junction" THEN AddPort(a0, <<c.id, 1>>) ELSE a0
         IN  PortList(Tail(comps), a1)

\* pMap.get: the index of a port key, -1 for undefined
PMapGet(pl, id, port) ==
    IF InSeq(<<id, port>>, pl)
    THEN (CHOOSE i \in 1..Len(pl) : pl[i] = <<id, port>>) - 1
    ELSE -1

\* voltageSources.findIndex(bat => bat.id === id)
FindIndex(vs, id) ==
    IF InSeq(id, vs)
    THEN (CHOOSE i \in 1..Len(vs) : vs[i] = id /\ \A j \in 1..(i - 1) : vs[j] # id) - 1
    ELSE -1

MatrixSize(comps) == Len(PortList(comps, <<>>)) + Len(VoltageSources(comps))

\* an array value, evaluated once when it is built (the comparison makes TLC
\* enumerate the function instead of re-evaluating its body at every access)
Array(f) == IF f = f THEN f ELSE f

\* ------------------------------------------------------------------------
\* linear solver (CircuitSolver.solveLinearMatrix)
\* ------------------------------------------------------------------------
RECURSIVE PivotScan(_, _, _, _, _, _)
PivotScan(M, i, n, k, maxEl, maxRow) ==
    IF k >= n THEN maxRow
    ELSE IF FGt(FAbs(M[k][i]), maxEl)
         THEN PivotScan(M, i, n, k + 1, FAbs(M[k][i]), k)
         ELSE PivotScan(M, i, n, k + 1, maxEl, maxRow)

\* the pivot row chosen for column i
PivotRow(M, i, n) == PivotScan(M, i, n, i + 1, FAbs(M[i][i]), i)

\* one pass of the elimination loop for column i
ElimStep(Mx, i, n) ==
    LET maxRow == PivotRow(Mx.M, i, n)
        M1 == IF maxRow # i
              THEN [Mx.M EXCEPT ![i] = Mx.M[maxRow], ![maxRow] = Mx.M[i]]
              ELSE Mx.M
        x1 == IF maxRow # i
              THEN [Mx.x EXCEPT ![i] = Mx.x[maxRow], ![maxRow] = Mx.x[i]]
              ELSE Mx.x
        factor == Array([k \in 0..(n - 1) |->
                           IF k > i THEN FDiv(FNeg(M1[k][i]), M1[i][i]) ELSE Zero])
    IN  IF FLt(FAbs(M1[i][i]), PivotThreshold) THEN [M |-> M1, x |-> x1]
        ELSE [M |-> Array([k \in 0..(n - 1) |->
                             IF k > i
                             THEN [j \in 0..(n - 1) |->
                                     IF j = i THEN Zero
                                     ELSE IF j > i
                                          THEN FAdd(M1[k][j], FMul(factor[k], M1[i][j]))
                                          ELSE M1[k][j]]
                             ELSE M1[k]]),
              x |-> Array([k \in 0..(n - 1) |->
                             IF k > i THEN FAdd(x1[k], FMul(factor[k], x1[i]))
                             ELSE x1[k]])]

RECURSIVE Eliminate(_, _, _)
Eliminate(Mx, i, n) ==
    IF i >= n THEN Mx
    ELSE Then(ElimStep(Mx, i, n), LAMBDA next : Eliminate(next, i + 1, n))

RECURSIVE RowSum(_, _, _, _, _)
\* sum of M[i][j] * res[j] for j = from..n-1, accumulated in index order
RowSum(row, res, j, n, sum) ==
    IF j >= n THEN sum
    ELSE Then(FAdd(sum, FMul(row[j], res[j])),
              LAMBDA next : RowSum(row, res, j + 1, n, next))

RECURSIVE BackSubstitute(_, _, _, _)
BackSubstitute(Mx, res, i, n) ==
    IF i < 0 THEN res
    ELSE LET ri == IF FLt(FAbs(Mx.M[i][i]), PivotThreshold) THEN Zero
                   ELSE FDiv(FSub(Mx.x[i], RowSum(Mx.M[i], res, i + 1, n, Zero)),
                             Mx.M[i][i])
         IN  Then([res EXCEPT ![i] = ri], LAMBDA next : BackSubstitute(Mx, next, i - 1, n))

solveLinearMatrix(A, B) ==
    LET n == Cardinality(DOMAIN B)
    IN  Then(Eliminate([M |-> A, x |-> B], 0, n),
             LAMBDA Mx : BackSubstitute(Mx, Array([i \in 0..(n - 1) |-> Zero]), n - 1, n))

\* ------------------------------------------------------------------------
\* Math.sin
\* ------------------------------------------------------------------------
PI == Norm(1, 314159265, -8)

HalfPi == Norm(1, 157079633, -8)

\* the integer nearest to a finite value of magnitude below 10^9
NearestInt(a) ==
    IF a.m = 0 THEN 0
    ELSE IF a.e >= 0 THEN a.m * Pow10(a.e)
    ELSE IF -a.e > 9 THEN 0
    ELSE Sgn(a.m) * ((IAbs(a.m) + 5 * Pow10(-a.e - 1)) \div Pow10(-a.e))

\* Taylor polynomials on [-pi/4, pi/4], the terms evaluated innermost first
SinPoly(r) ==
    Then(FMul(r, r), LAMBDA r2 :
    Then(FSub(FDiv(One, Dec(5040, 0)), FMul(r2, FDiv(One, Dec(362880, 0)))), LAMBDA t6 :
    Then(FSub(FDiv(One, Dec(120, 0)), FMul(r2, t6)), LAMBDA t4 :
    Then(FSub(FDiv(One, Dec(6, 0)), FMul(r2, t4)), LAMBDA t2 :
         FMul(r, FSub(One, FMul(r2, t2)))))))

CosPoly(r) ==
    Then(FMul(r, r), LAMBDA r2 :
    Then(FSub(FDiv(One, Dec(720, 0)), FMul(r2, FDiv(One, Dec(40320, 0)))), LAMBDA t6 :
    Then(FSub(FDiv(One, Dec(24, 0)), FMul(r2, t6)), LAMBDA t4 :
    Then(FSub(FDiv(One, Dec(2, 0)), FMul(r2, t4)), LAMBDA t2 :
         FSub(One, FMul(r2, t2))))))

\* Math.sin, by reduction of the argument to a multiple of pi/2 plus a rest
Sine(a) ==
    IF ~IsFinite(a) THEN NaN
    ELSE Then(NearestInt(FDiv(a, HalfPi)), LAMBDA q :
         Then(FSub(a, FMul(Dec(q, 0), HalfPi)), LAMBDA r :
              IF q % 4 = 0 THEN SinPoly(r)
              ELSE IF q % 4 = 1 THEN CosPoly(r)
              ELSE IF q % 4 = 2 THEN FNeg(SinPoly(r))
              ELSE FNeg(CosPoly(r))))

\* ------------------------------------------------------------------------
\* stamp library (CircuitSolver.solve, inside the iteration loop)
\* ------------------------------------------------------------------------
AddA(ab, i, j, d) == [ab EXCEPT !.A[i][j] = FAdd(@, d)]

AddB(ab, i, d) == [ab EXCEPT !.B[i] = FAdd(@, d)]

stampG(ab, u, v, g) ==
    AddA(AddA(AddA(AddA(ab, u, u, g), v, v, g), u, v, FNeg(g)), v, u, FNeg(g))

\* the resistance the resistor stamp divides by
StampResistance(r) == FMax(Dec(1, -14), r)

stampR(ab, u, v, r) == stampG(ab, u, v, FDiv(One, StampResistance(r)))

\* B[u] -= I_eq; B[v] += I_eq
StampIeq(ab, u, v, ieq) == AddB(AddB(ab, u, FNeg(ieq)), v, ieq)

stampVoltageSource(ab, u, v, voltage, idx) ==
    [ab EXCEPT !.A = [[[[@ EXCEPT ![idx][u] = One] EXCEPT ![idx][v] = FNeg(One)]
                          EXCEPT ![u][idx] = One] EXCEPT ![v][idx] = FNeg(One)],
               !.B[idx] = voltage]

\* the resistance of a Resistor as the code reads it: props.resistance || 1000
ResistorValue(c) == Or(c.props.resistance, Dec(1000, 0))

SwitchResistance(c) == IF c.props.closed THEN R_CLOSED_SWITCH ELSE R_OPEN_SWITCH

CapacitanceMult(unit) ==
    IF unit = "pF" THEN Dec(1, -12)
    ELSE IF unit = "nF" THEN Dec(1, -9)
    ELSE IF unit = "mF" THEN Dec(1, -3)
    ELSE Dec(1, -6)

\* G = C / dt of the capacitor companion model
CapacitorG(c, dt) ==
    FDiv(FMul(Or(c.props.capacitance, Dec(10, 0)), CapacitanceMult(c.props.capacitanceUnit)),
         dt)

R_on == Dec(1, -1)

G_off == Dec(1, -12)

DiodeVfwd(c) ==
    IF c.type = "led" THEN Or(c.props.voltageDrop, Dec(2, 0))
    ELSE IF c.props.diodeType = "schottky" THEN Dec(3, -1)
    ELSE Dec(7, -1)

DiodeVzener(c) == Or(c.props.zenerVoltage, Dec(56, -1))

\* a region that is decided from the displayed voltage of the last tick
\* whenever vd is 0
DiodeRegionByTelemetry(c, vd) ==
    IF FGt(IF vd = Zero THEN c.simData.voltage ELSE vd, DiodeVfwd(c)) THEN "forward"
    ELSE IF c.props.diodeType = "zener" /\ FLt(vd, FNeg(DiodeVzener(c))) THEN "zener"
    ELSE "blocking"

\* the region a diode is in at voltage vd
DiodeRegion(c, vd) ==
    IF FGt(vd, DiodeVfwd(c)) THEN "forward"
    ELSE IF c.props.diodeType = "zener" /\ FLt(vd, FNeg(DiodeVzener(c))) THEN "zener"
    ELSE "blocking"

InductorL(c) == Or(c.props.inductance, Dec(100, -3))

SafeDt(dt) == FMax(Dec(1, -6), dt)

InductorGeq(c, dt) == FDiv(One, FAdd(Dec(1, -1), FDiv(InductorL(c), SafeDt(dt))))

InductorIeq(c, dt) ==
    FMul(FMul(Or(c.simData.storedCurrent, Zero), FDiv(InductorL(c), SafeDt(dt))),
         InductorGeq(c, dt))

\* the value an ideal source forces between its ports
SourceValue(c, simTime) ==
    IF c.type = "battery" THEN Or(c.props.voltage, Dec(9, 0))
    ELSE Then(FMul(FMul(FMul(Dec(2, 0), PI), Or(c.props.frequency, Dec(60, 0))), simTime),
              LAMBDA angle :
                 Then(FSin(angle), LAMBDA sine : FMul(Or(c.props.amplitude, Dec(10, 0)), sine)))

\* one extra index that all sources share
SourceIndexShared(c, pl, vs) == Len(pl)

\* the row and column of the branch current of source c
SourceIndex(c, pl, vs) == Len(pl) + FindIndex(vs, c.id)

StampComponent(ab, c, pl, vs, prevSol, it, dt, simTime) ==
    IF c.type = "junction" THEN ab
    ELSE LET u == PMapGet(pl, c.id, 0)
             v == PMapGet(pl, c.id, 1)
         IN  IF c.type = "resistor" THEN stampR(ab, u, v, ResistorValue(c))
             ELSE IF c.type \in {"switch", "pushbutton"}
                  THEN stampR(ab, u, v, SwitchResistance(c))
             ELSE IF c.type \in {"capacitor", "capacitor_pol"}
                  THEN LET G == CapacitorG(c, dt)
                           ieq == FMul(FNeg(G), Or(c.simData.storedVoltage, Zero))
                       IN  StampIeq(stampG(stampG(ab, u, v, G), u, v, Dec(1, -12)),
                                    u, v, ieq)
             ELSE IF c.type \in {"diode", "led"}
                  THEN LET vd == IF it > 0 THEN FSub(prevSol[u], prevSol[v]) ELSE Zero
                           region == DiodeRegion(c, vd)
                       IN  IF region = "forward"
                           THEN StampIeq(stampG(ab, u, v, FDiv(One, R_on)), u, v,
                                         FDiv(FNeg(DiodeVfwd(c)), R_on))
                           ELSE IF region = "zener"
                           THEN StampIeq(stampG(ab, u, v, FDiv(One, R_on)), u, v,
                                         FDiv(DiodeVzener(c), R_on))
                           ELSE stampG(ab, u, v, G_off)
             ELSE IF c.type = "lamp" THEN stampR(ab, u, v, Dec(100, 0))
             ELSE IF c.type = "inductor"
                  THEN StampIeq(stampG(ab, u, v, InductorGeq(c, dt)), u, v,
                                InductorIeq(c, dt))
             ELSE IF IsSource(c)
                  THEN stampVoltageSource(ab, v, u, SourceValue(c, simTime),
                                          SourceIndex(c, pl, vs))
             ELSE ab

\* a wire is stamped when both of its endpoints are known ports
WireResolved(w, pl) ==
    /\ PMapGet(pl, w.compAId, w.portAIndex) # -1
    /\ PMapGet(pl, w.compBId, w.portBIndex) # -1

StampWire(ab, w, pl) ==
    IF WireResolved(w, pl)
    THEN stampR(ab, PMapGet(pl, w.compAId, w.portAIndex),
                PMapGet(pl, w.compBId, w.portBIndex), R_Ideal)
    ELSE ab

RECURSIVE StampWires(_, _, _)
StampWires(ab, ws, pl) ==
    IF ws = <<>> THEN ab
    ELSE Then(StampWire(ab, Head(ws), pl), LAMBDA next : StampWires(next, Tail(ws), pl))

RECURSIVE StampComponents(_, _, _, _, _, _, _, _)
StampComponents(ab, cs, pl, vs, prevSol, it, dt, simTime) ==
    IF cs = <<>> THEN ab
    ELSE Then(StampComponent(ab, Head(cs), pl, vs, prevSol, it, dt, simTime),
              LAMBDA next : StampComponents(next, Tail(cs), pl, vs, prevSol, it, dt, simTime))

\* for (i < pList.length) A[i][i] += G_MIN; A[0].fill(0); A[0][0] = 1; B[0] = 0
GroundReference(ab, np, size) ==
    LET g == [ab EXCEPT !.A = Array([i \in 0..(size - 1) |->
                                       IF i < np THEN [@[i] EXCEPT ![i] = FAdd(@, G_MIN)]
                                       ELSE @[i]])]
    IN  [g EXCEPT !.A[0] = Array([j \in 0..(size - 1) |-> IF j = 0 THEN One ELSE Zero]),
                  !.B[0] = Zero]

\* the system A x = B of one iteration
BuildSystem(comps, ws, prevSol, it, dt, simTime) ==
    LET pl == PortList(comps, <<>>)
        vs == VoltageSources(comps)
        size == Len(pl) + Len(vs)
        empty == [A |-> Array([i \in 0..(size - 1) |-> [j \in 0..(size - 1) |-> Zero]]),
                  B |-> Array([i \in 0..(size - 1) |-> Zero])]
    IN  Then(StampWires(empty, ws, pl),
             LAMBDA wired :
                Then(StampComponents(wired, comps, pl, vs, prevSol, it, dt, simTime),
                     LAMBDA stamped : GroundReference(stamped, Len(pl), size)))

\* sol.some(isNaN)
SomeNaN(x) == \E i \in DOMAIN x : IsNaN(x[i])

\* ------------------------------------------------------------------------
\* state updater (CircuitSolver.solve, after the iteration loop)
\* ------------------------------------------------------------------------
IsCapacitor(c) == c.type \in {"capacitor", "capacitor_pol"}

\* newVoltage = sol[u] - sol[v]
BranchVoltage(c, s, pl) == FSub(s[PMapGet(pl, c.id, 0)], s[PMapGet(pl, c.id, 1)])

\* the resistance the state updater divides the branch voltage by
TelemetryResistance(c) ==
    FMax(IF c.type = "resistor" THEN ResistorValue(c) ELSE Dec(1, -9), Dec(1, -9))

\* a branch current that carries the displayed current of the last call along
BranchCurrentDrifting(c, s, pl, vs, dt) ==
    IF IsSource(c) THEN FNeg(s[SourceIndex(c, pl, vs)])
    ELSE FAdd(c.simData.current, FMul(BranchVoltage(c, s, pl), G_off))

\* newCurrent of a component, before smoothing
BranchCurrent(c, s, pl, vs, dt) ==
    LET nv == BranchVoltage(c, s, pl)
    IN  IF IsSource(c) THEN FNeg(s[SourceIndex(c, pl, vs)])
        ELSE IF IsCapacitor(c)
             THEN FMul(CapacitorG(c, dt), FSub(nv, Or(c.simData.storedVoltage, Zero)))
        ELSE IF c.type = "inductor"
             THEN FAdd(FMul(InductorGeq(c, dt), nv), InductorIeq(c, dt))
        ELSE IF c.type \in {"diode", "led"}
             THEN LET region == DiodeRegion(c, nv)
                  IN  IF region = "forward" THEN FDiv(FSub(nv, DiodeVfwd(c)), R_on)
                      ELSE IF region = "zener" THEN FDiv(FAdd(nv, DiodeVzener(c)), R_on)
                      ELSE FMul(nv, G_off)
        ELSE IF c.type = "lamp" THEN FDiv(nv, Dec(100, 0))
        ELSE IF c.type \in {"switch", "pushbutton"} THEN FDiv(nv, SwitchResistance(c))
        ELSE FDiv(nv, TelemetryResistance(c))

alphaComponent == Dec(5, -1)

alphaWire == Dec(2, -1)

\* a peak that decays by a tenth per tick
decayTenth == Dec(9, -1)

decay == Dec(999, -3)

rmsAlpha == Dec(5, -3)

\* the smoothing with the weights of old and new exchanged
SmoothSwapped(old, new, alpha) == FAdd(FMul(old, alpha), FMul(new, FSub(One, alpha)))

\* old * (1 - alpha) + new * alpha
Smooth(old, new, alpha) == FAdd(FMul(old, FSub(One, alpha)), FMul(new, alpha))

\* a state update that overwrites the stored state first and computes the branch
\* current from the overwritten value
UpdatedSimDataStoredFirst(c, s, pl, vs, dt) ==
    LET nv == BranchVoltage(c, s, pl)
        stored == [c EXCEPT !.simData.storedVoltage = IF IsCapacitor(c) THEN nv ELSE @]
        nc == BranchCurrent(stored, s, pl, vs, dt)
        sd == c.simData
        cur == Smooth(sd.current, nc, alphaComponent)
    IN  [sd EXCEPT !.storedVoltage = IF IsCapacitor(c) THEN nv ELSE @,
                   !.storedCurrent = IF c.type = "inductor" THEN nc ELSE @,
                   !.current = cur,
                   !.voltage = FAbs(nv),
                   !.power = FMul(FAbs(nv), FAbs(cur))]

\* simData of component c after the state update
UpdatedSimData(c, s, pl, vs, dt) ==
    LET nv == BranchVoltage(c, s, pl)
        nc == BranchCurrent(c, s, pl, vs, dt)
        sd == c.simData
        cur == Smooth(sd.current, nc, alphaComponent)
        volt == FAbs(nv)
        vSqSum == Smooth(Or(sd.vSqSum, Zero), FMul(volt, volt), rmsAlpha)
        iSqSum == Smooth(Or(sd.iSqSum, Zero), FMul(cur, cur), rmsAlpha)
    IN  [sd EXCEPT !.storedVoltage = IF IsCapacitor(c) THEN nv ELSE @,
                   !.storedCurrent = IF c.type = "inductor" THEN nc ELSE @,
                   !.current = cur,
                   !.voltage = volt,
                   !.power = FMul(volt, FAbs(cur)),
                   !.vPk = FMax(FAbs(volt), FMul(Or(sd.vPk, Zero), decay)),
                   !.iPk = FMax(FAbs(cur), FMul(Or(sd.iPk, Zero), decay)),
                   !.vSqSum = vSqSum,
                   !.vRms = FSqrt(vSqSum),
                   !.iSqSum = iSqSum,
                   !.iRms = FSqrt(iSqSum)]

\* the state update of a component without the peak lines
UpdateComponentNoPeaks(c, s, pl, vs, dt) ==
    IF c.type = "junction" THEN c
    ELSE [c EXCEPT !.simData = [UpdatedSimData(c, s, pl, vs, dt) EXCEPT
                                   !.vPk = c.simData.vPk, !.iPk = c.simData.iPk]]

UpdateComponent(c, s, pl, vs, dt) ==
    IF c.type = "junction" THEN c
    ELSE [c EXCEPT !.simData = UpdatedSimData(c, s, pl, vs, dt)]

\* the fields of c.simData the state updater assigns
ComponentWrites(c) ==
    IF c.type = "junction" THEN {}
    ELSE {"current", "voltage", "power", "vPk", "iPk", "vSqSum", "vRms", "iSqSum", "iRms"}
         \cup (IF IsCapacitor(c) THEN {"storedVoltage"} ELSE {})
         \cup (IF c.type = "inductor" THEN {"storedCurrent"} ELSE {})

UpdateWire(w, s, pl) ==
    IF ~WireResolved(w, pl) THEN w
    ELSE LET d == FSub(s[PMapGet(pl, w.compAId, w.portAIndex)],
                       s[PMapGet(pl, w.compBId, w.portBIndex)])
             nc == FDiv(d, Or(w.simData.resistance, Dec(1, -4)))
             cur == Smooth(w.simData.current, nc, alphaWire)
         IN  [w EXCEPT !.simData.current = cur,
                       !.simData.voltage = FAbs(d),
                       !.simData.power = FAbs(FMul(FAbs(d), cur))]

\* the fields of w.simData the state updater assigns
WireWrites(w, pl) == IF WireResolved(w, pl) THEN {"current", "voltage", "power"} ELSE {}

\* the fields of w.simData one iteration of the loop assigns
WireLoopWrites(w, pl) == IF WireResolved(w, pl) THEN {"resistance"} ELSE {}

\* w.simData.resistance = R_Ideal, inside the stamping of the wires
StampedWire(w, pl) ==
    IF WireResolved(w, pl) THEN [w EXCEPT !.simData.resistance = R_Ideal] ELSE w

\* ------------------------------------------------------------------------
\* one iteration, the state update, and the operations by name
\* ------------------------------------------------------------------------
\* the system and the solution of iteration it, from the previous solution
SolveIteration(comps, ws, prevSol, it, step, time) ==
    Then(BuildSystem(comps, ws, prevSol, it, step, time),
         LAMBDA ab : [system |-> ab, s |-> solveLinearMatrix(ab.A, ab.B)])

\* a state update that treats a junction as a wire and assigns its resistance
StateUpdateJunctions(comps, ws, s, step) ==
    LET pl == PortList(comps, <<>>)
        vs == VoltageSources(comps)
    IN  [components |-> Array([i \in 1..Len(comps) |->
                                 IF comps[i].type = "junction"
                                 THEN [comps[i] EXCEPT !.simData.resistance = R_Ideal]
                                 ELSE UpdateComponent(comps[i], s, pl, vs, step)]),
         branchCurrent |-> Array([i \in 1..Len(comps) |->
                                    IF comps[i].type = "junction" THEN Zero
                                    ELSE BranchCurrent(comps[i], s, pl, vs, step)]),
         wires |-> Array([i \in 1..Len(ws) |-> UpdateWire(ws[i], s, pl)])]

\* the state update after the loop: every component, then every wire
StateUpdate(comps, ws, s, step) ==
    LET pl == PortList(comps, <<>>)
        vs == VoltageSources(comps)
    IN  [components |-> Array([i \in 1..Len(comps) |->
                                 UpdateComponent(comps[i], s, pl, vs, step)]),
         branchCurrent |-> Array([i \in 1..Len(comps) |->
                                    IF comps[i].type = "junction" THEN Zero
                                    ELSE BranchCurrent(comps[i], s, pl, vs, step)]),
         wires |-> Array([i \in 1..Len(ws) |-> UpdateWire(ws[i], s, pl)])]

\* the definition of each operation that is evaluated by name
Call(f, x) ==
    CASE f = "Norm" -> RoundDigits(x[1], x[2], x[3])
      [] f = "FMul" -> Product(x[1], x[2])
      [] f = "FDiv" -> Quotient(x[1], x[2])
      [] f = "FAdd" -> Sum(x[1], x[2])
      [] f = "FSqrt" -> SquareRoot(x[1])
      [] f = "FSin" -> Sine(x[1])
      [] f = "SolveIteration" -> SolveIteration(x[1], x[2], x[3], x[4], x[5], x[6])
      [] f = "StateUpdate" -> StateUpdate(x[1], x[2], x[3], x[4])

RECURSIVE SolveLoop(_, _, _, _, _, _, _)
\* the iterations from, ..., to - 1 of the loop, entered with the solution s:
\* the solution of the last of them, or the abort on NaN (the range is halved
\* so that the evaluation stays shallow)
SolveLoop(comps, ws, s, from, to, step, time) ==
    IF to - from = 1
    THEN Then(SolveIteration(comps, ws, s, from, step, time).s,
              LAMBDA r : [aborted |-> SomeNaN(r), s |-> r])
    ELSE Then(SolveLoop(comps, ws, s, from, from + (to - from) \div 2, step, time),
              LAMBDA h : IF h.aborted THEN h
                         ELSE SolveLoop(comps, ws, h.s, from + (to - from) \div 2, to,
                                        step, time))

\* one call of CircuitSolver.solve as a function of its arguments: how the
\* call ends and the components and wires it leaves behind
solve(comps, ws, step, time) ==
    LET pl == PortList(comps, <<>>)
        stamped == Array([j \in 1..Len(ws) |-> StampedWire(ws[j], pl)])
    IN  IF MatrixSize(comps) = 0
        THEN [outcome |-> "thrown", components |-> comps, wires |-> stamped]
        ELSE Then(SolveLoop(comps, ws, Array([i \in 0..(MatrixSize(comps) - 1) |-> Zero]),
                            0, MAX_ITERATIONS, step, time),
                  LAMBDA l : IF l.aborted
                             THEN [outcome |-> "aborted", components |-> comps,
                                   wires |-> stamped]
                             ELSE [outcome |-> "returned",
                                   components |-> StateUpdate(comps, stamped, l.s,
                                                              step).components,
                                   wires |-> StateUpdate(comps, stamped, l.s,
                                                         step).wires])

\* ------------------------------------------------------------------------
\* bounds and inputs
\* ------------------------------------------------------------------------
\* solve calls per behaviour
MaxTicks == 2

\* dt = (tickRate / 1000) * timeStepMultiplier with the default multiplier 1.0
DtChoices == {Dec(1, -3)}

PropsV(v) == [NoProps EXCEPT !.voltage = v]

PropsR(r) == [NoProps EXCEPT !.resistance = r]

PropsC(cap) == [NoProps EXCEPT !.capacitance = cap, !.capacitanceUnit = "uF"]

Battery(id, v) == Comp(id, "battery", PropsV(v))

Resistor(id, r) == Comp(id, "resistor", PropsR(r))

Capacitor(id, cap) == Comp(id, "capacitor", PropsC(cap))

ACSource(id, amp, freq) ==
    Comp(id, "ac_source", [NoProps EXCEPT !.amplitude = amp, !.frequency = freq])

Junction(id) == Comp(id, "junction", NoProps)

Inductor(id, l) == Comp(id, "inductor", [NoProps EXCEPT !.inductance = l])

\* a rectifier diode (no diodeType: V_fwd = 0.7)
Diode(id) == Comp(id, "diode", NoProps)

\* a zener diode (V_zener = 5.6)
Zener(id) == Comp(id, "diode", [NoProps EXCEPT !.diodeType = "zener"])

Circuit(cs, ws) == [components |-> cs, wires |-> ws]

\* the loop of two two-port components 1 and 2
Loop12 == <<Wire(1, 0, 2, 0), Wire(1, 1, 2, 1)>>

\* component 1, a junction 2 and component 3 in a loop
Loop123 == <<Wire(1, 0, 2, 0), Wire(2, 0, 3, 0), Wire(1, 1, 3, 1)>>

\* two-port components 1, 2 and 3 in series: port 1 of each to port 0 of the next
Series123 == <<Wire(1, 1, 2, 0), Wire(2, 1, 3, 0), Wire(3, 1, 1, 0)>>

\* the circuits a behaviour starts from
Circuits ==
    { Circuit(<<>>, <<>>),
      Circuit(<<Battery(1, Dec(9, 0)), Resistor(2, Dec(5, -1))>>, Loop12),
      Circuit(<<Resistor(1, Dec(1, -10)), Battery(2, Dec(9, 0))>>, Loop12),
      Circuit(<<Battery(1, Zero), Resistor(2, Dec(100, 0))>>, Loop12),
      Circuit(<<Battery(1, Dec(9, 0)), Battery(2, Dec(5, 0))>>, Loop12),
      Circuit(<<Battery(1, Dec(1, 308)), Resistor(2, Dec(1000, 0))>>, Loop12),
      Circuit(<<Capacitor(1, Dec(7, 200)), Battery(2, Dec(1, 200))>>, Loop12),
      Circuit(<<ACSource(1, Dec(10, 0), Dec(60, 0)), Resistor(2, Dec(100, 0))>>, Loop12),
      Circuit(<<Battery(1, Dec(9, 0)), Junction(2), Resistor(3, Dec(100, 0))>>, Loop123),
      Circuit(<<Battery(1, Dec(9, 0)), Inductor(2, Dec(100, -3))>>, Loop12),
      Circuit(<<Battery(1, Dec(9, 0)), Resistor(2, Dec(10, 0)), Capacitor(3, Dec(10, 0))>>,
              Series123),
      Circuit(<<Battery(1, Zero), Resistor(2, Dec(10, 0)), Capacitor(3, Dec(10, 0))>>,
              Series123),
      Circuit(<<Battery(1, Dec(9, 0)), Resistor(2, Dec(100, 0)), Diode(3)>>, Series123),
      Circuit(<<ACSource(1, Dec(10, 0), Dec(60, 0)), Resistor(2, Dec(100, 0)), Diode(3)>>,
              Series123),
      Circuit(<<Battery(1, Dec(-9, 0)), Resistor(2, Dec(100, 0)), Zener(3)>>, Series123),
      Circuit(<<Resistor(1, Dec(100, 0)), Resistor(2, Dec(1, -5))>>, <<>>) }

\* ------------------------------------------------------------------------
\* state
\* ------------------------------------------------------------------------
VARIABLES
    components,     \* componentsRef.current: the list solve works on
    wires,          \* wiresRef.current
    dt,             \* the time step the tick loop passes to solve
    simTime,        \* simTimeRef.current
    isSimulating,   \* the Run / Stop state
    pc,             \* position of the tick: idle, loop, update, returned, aborted, thrown
    iter,           \* the loop variable iter of solve
    sol,            \* the local sol of solve
    system,         \* the locals A and B of the last iteration
    branchCurrent,  \* newCurrent of each component in the state update
    ret,            \* what the last solve call handed to its caller
    warned,         \* console.warn was called by the last solve call
    pre,            \* simData of components and wires when the call started
    writes,         \* assignments to simData fields during the call, by field
    ticks,          \* solve calls so far
    ui,             \* the state hooks and the refs of App, by name
    search          \* the arguments and the locals of a call of findSmartPath

vars == <<components, wires, dt, simTime, isSimulating, pc, iter, sol, system,
          branchCurrent, ret, warned, pre, writes, ticks, ui, search>>

SimDataOf(xs) == [i \in 1..Len(xs) |-> xs[i].simData]

NoWrites(xs) == [i \in 1..Len(xs) |-> [f \in SimFields |-> 0]]

\* count one assignment to each field of fs(i) of element i
CountWrites(w, fs(_)) ==
    [i \in 1..Len(w) |-> [f \in SimFields |-> IF f \in fs(i) THEN w[i][f] + 1 ELSE w[i][f]]]

NoSystem == [A |-> <<>>, B |-> <<>>]

\* the state hooks of App on an empty canvas, after the first render
EmptyCanvas ==
    [components |-> <<>>, wires |-> <<>>,
     componentsRef |-> <<>>, wiresRef |-> <<>>,
     history |-> <<>>, historyIndex |-> -1,
     selectedIds |-> {}, placementMode |-> [type |-> "null", rotation |-> 0],
     connectionStart |-> [compId |-> 0, portId |-> 0],
     contextMenu |-> 0, draggingCompId |-> 0, dragStartPos |-> [x |-> 0, y |-> 0],
     activeButtonId |-> 0, button |-> "up",
     showProperties |-> FALSE, now |-> 1, edits |-> 0, events |-> 0]

\* an absent startDir or dir, and an absent parent
NoDir == [x |-> 0, y |-> 0]

NoNode == 0

NoSearch ==
    [phase |-> "none", s |-> NoDir, e |-> NoDir, obstacles |-> {}, startDir |-> NoDir,
     softObstacles |-> {}, heap |-> <<>>, openList |-> <<>>, closedSet |-> {},
     nodeMap |-> <<>>, bestNode |-> NoNode, iter |-> 0, path |-> <<>>]

Init ==
    /\ \E c \in Circuits : components = c.components /\ wires = c.wires
    /\ dt \in DtChoices
    /\ simTime = Zero
    /\ isSimulating = FALSE
    /\ pc = "idle"
    /\ iter = 0
    /\ sol = <<>>
    /\ system = NoSystem
    /\ branchCurrent = <<>>
    /\ ret = "none"
    /\ warned = FALSE
    /\ pre = [c |-> SimDataOf(components), w |-> SimDataOf(wires)]
    /\ writes = [c |-> NoWrites(components), w |-> NoWrites(wires)]
    /\ ticks = 0
    /\ ui = EmptyCanvas
    /\ search = NoSearch

\* the Run / Stop button
ToggleRun ==
    /\ pc = "idle"
    /\ isSimulating' = ~isSimulating
    /\ ui' = [ui EXCEPT !.showProperties = IF isSimulating THEN @ ELSE FALSE]
    /\ UNCHANGED <<components, wires, dt, simTime, pc, iter, sol, system,
                   branchCurrent, ret, warned, pre, writes, ticks, search>>

\* the interval fires and calls CircuitSolver.solve: topology map, sol = zeros
SolveBegin ==
    /\ pc = "idle"
    /\ isSimulating
    /\ ticks < MaxTicks
    /\ pc' = "loop"
    /\ iter' = 0
    /\ sol' = [i \in 0..(MatrixSize(components) - 1) |-> Zero]
    /\ system' = NoSystem
    /\ branchCurrent' = <<>>
    /\ ret' = "none"
    /\ warned' = FALSE
    /\ pre' = [c |-> SimDataOf(components), w |-> SimDataOf(wires)]
    /\ writes' = [c |-> NoWrites(components), w |-> NoWrites(wires)]
    /\ UNCHANGED <<components, wires, dt, simTime, isSimulating, ticks, ui, search>>

\* one iteration of the loop: stamp, ground reference, linear solve, NaN check
Iterate ==
    /\ pc = "loop"
    /\ iter < MAX_ITERATIONS
    /\ wires' = [i \in 1..Len(wires) |->
                   StampedWire(wires[i], PortList(components, <<>>))]
    /\ writes' = [writes EXCEPT
                    !.w = CountWrites(@, LAMBDA i :
                            WireLoopWrites(wires[i], PortList(components, <<>>)))]
    /\ IF MatrixSize(components) = 0
       THEN \* A[0] is undefined: A[0].fill throws a TypeError
            /\ pc' = "thrown"
            /\ UNCHANGED <<iter, sol, system, ret, warned>>
       ELSE \E r \in {Call("SolveIteration",
                             <<components, wires, sol, iter, dt, simTime>>)} :
               /\ system' = r.system
               /\ IF SomeNaN(r.s)
                  THEN /\ sol' = [i \in DOMAIN r.s |-> Zero]
                       /\ warned' = TRUE
                       /\ ret' = "undefined"
                       /\ pc' = "aborted"
                       /\ iter' = iter
                  ELSE /\ sol' = r.s
                       /\ iter' = iter + 1
                       /\ pc' = IF iter + 1 < MAX_ITERATIONS THEN "loop" ELSE "update"
                       /\ UNCHANGED <<ret, warned>>
    /\ UNCHANGED <<components, dt, simTime, isSimulating, branchCurrent, pre, ticks, ui, search>>

\* a state update that divides by the time of the call, not by dt, in every
\* call but the first
UpdateStateByCallCount ==
    /\ pc = "update"
    /\ \E r \in {Call("StateUpdate",
                       <<components, wires, sol, IF ticks = 0 THEN dt ELSE simTime>>)} :
          /\ components' = r.components
          /\ branchCurrent' = r.branchCurrent
          /\ wires' = r.wires
    /\ writes' = [c |-> CountWrites(writes.c, LAMBDA i : ComponentWrites(components[i])),
                  w |-> CountWrites(writes.w, LAMBDA i :
                          WireWrites(wires[i], PortList(components, <<>>)))]
    /\ ret' = "undefined"
    /\ pc' = "returned"
    /\ UNCHANGED <<dt, simTime, isSimulating, iter, sol, system, warned, pre, ticks, ui, search>>

\* the state update after the loop, then the return of solve
UpdateState ==
    /\ pc = "update"
    /\ \E r \in {Call("StateUpdate", <<components, wires, sol, dt>>)} :
          /\ components' = r.components
          /\ branchCurrent' = r.branchCurrent
          /\ wires' = r.wires
    /\ writes' = [c |-> CountWrites(writes.c, LAMBDA i : ComponentWrites(components[i])),
                  w |-> CountWrites(writes.w, LAMBDA i :
                          WireWrites(wires[i], PortList(components, <<>>)))]
    /\ ret' = "undefined"
    /\ pc' = "returned"
    /\ UNCHANGED <<dt, simTime, isSimulating, iter, sol, system, warned, pre, ticks, ui, search>>

\* a reset object without the stored fields
ResetWithoutStored == NewSimData

\* simData of every component and wire after resetSimulation
ResetSimData == [NewSimData EXCEPT !.storedVoltage = Zero, !.storedCurrent = Zero]

\* the Reset button: simTime = 0, simData replaced, simulation stopped
resetSimulation ==
    /\ pc = "idle"
    /\ simTime' = Zero
    /\ components' = [i \in 1..Len(components) |->
                        [components[i] EXCEPT !.simData = ResetSimData]]
    /\ wires' = [i \in 1..Len(wires) |-> [wires[i] EXCEPT !.simData = ResetSimData]]
    /\ isSimulating' = FALSE
    /\ UNCHANGED <<dt, pc, iter, sol, system, branchCurrent, ret, warned, pre, writes,
                   ticks, ui, search>>

\* the tick loop after solve came back: simTimeRef.current += dt
SolveEnd ==
    /\ pc \in {"returned", "aborted"}
    /\ simTime' = FAdd(simTime, dt)
    /\ ticks' = ticks + 1
    /\ pc' = "idle"
    /\ UNCHANGED <<components, wires, dt, isSimulating, iter, sol, system,
                   branchCurrent, ret, warned, pre, writes, ui, search>>

\* the exception of solve leaves the interval callback
TickThrown ==
    /\ pc = "thrown"
    /\ ticks' = ticks + 1
    /\ pc' = "idle"
    /\ UNCHANGED <<components, wires, dt, simTime, isSimulating, iter, sol, system,
                   branchCurrent, ret, warned, pre, writes, ui, search>>

Next ==
    \/ ToggleRun
    \/ SolveBegin
    \/ Iterate
    \/ UpdateState
    \/ SolveEnd
    \/ TickThrown
    \/ resetSimulation

Spec == Init /\ [][Next]_vars

\* ------------------------------------------------------------------------
\* the editor (App.tsx, CircuitCanvas): state hooks, history, handlers
\* ------------------------------------------------------------------------
\* ui.components and ui.wires are the state hooks components and wires of App,
\* without simData (the part of the tick kept in the variables above); an id
\* is a number, 0 stands for null
NullId == 0

NoPlacement == [type |-> "null", rotation |-> 0]

NoPort == [compId |-> NullId, portId |-> 0]

\* Math.min
MathMin(a, b) == IF a < b THEN a ELSE b

\* the ids a handler running at Date.now() = t builds
CompId(t) == t

JunctionId(t, k) == 40 + 2 * t + k

WireId(t, k) == 100 + 10 * t + k

\* props of a placed component: resistance of a Resistor, closed of a switch
DefaultProps(type) ==
    [closed |-> FALSE, resistance |-> IF type = "resistor" THEN 1000 ELSE 0]

NewComponent(id, type, x, y, rotation) ==
    [id |-> id, type |-> type, x |-> x, y |-> y, rotation |-> rotation,
     props |-> DefaultProps(type)]

NewJunction(id, x, y) == NewComponent(id, "junction", x, y, 0)

NewWire(id, a, pa, b, pb) ==
    [id |-> id, compAId |-> a, portAIndex |-> pa, compBId |-> b, portBIndex |-> pb]

\* xs.filter(x => x.id !== id)
WithoutId(xs, id) == SelectSeq(xs, LAMBDA x : x.id # id)

\* xs.find(x => x.id === id) is not undefined
HasId(xs, id) == \E i \in 1..Len(xs) : xs[i].id = id

\* xs.find(x => x.id === id)
FindId(xs, id) == xs[CHOOSE i \in 1..Len(xs) : xs[i].id = id]

\* the most entries the history keeps
HistoryLimit == 20

\* prev.slice(0, k)
Slice(prev, k) == SubSeq(prev, 1, MathMin(IF k < 0 THEN 0 ELSE k, Len(prev)))

\* saveToHistory: the updater of setHistory reads historyIndex of the render
\* the handler runs in (h.historyIndex), the updater of setHistoryIndex the
\* queued value
saveToHistory(u, h, newComponents, newWires) ==
    LET newHistory == Append(Slice(u.history, h.historyIndex + 1),
                             [components |-> newComponents, wires |-> newWires])
    IN  [u EXCEPT !.history = IF Len(newHistory) > HistoryLimit
                               THEN Tail(newHistory) ELSE newHistory,
                  !.historyIndex = MathMin(u.historyIndex + 1, HistoryLimit - 1),
                  !.edits = @ + 1]

updateStateWithHistory(u, h, newComponents, newWires) ==
    saveToHistory([u EXCEPT !.components = newComponents, !.wires = newWires],
                  h, newComponents, newWires)

\* undo; history[historyIndex - 1] past the end is undefined and reading its
\* components throws before anything is set
undo(u, h) ==
    IF h.historyIndex > 0 /\ h.historyIndex <= Len(h.history)
    THEN [u EXCEPT !.components = h.history[h.historyIndex].components,
                   !.wires = h.history[h.historyIndex].wires,
                   !.historyIndex = h.historyIndex - 1]
    ELSE u

redo(u, h) ==
    IF h.historyIndex < Len(h.history) - 1
    THEN [u EXCEPT !.components = h.history[h.historyIndex + 2].components,
                   !.wires = h.history[h.historyIndex + 2].wires,
                   !.historyIndex = h.historyIndex + 1]
    ELSE u

\* addComponentWithHistory; split is the wire both ports of the new component
\* lie on (NullId when there is none), swapped says that port 1 is the nearer
\* to the start of that wire
addComponentWithHistory(u, h, type, x, y, rotation, split, swapped) ==
    LET id == CompId(h.now)
        newComp == NewComponent(id, type, x, y, rotation)
        nextWires ==
            IF split = NullId THEN h.wires
            ELSE LET w == FindId(h.wires, split)
                 IN  WithoutId(h.wires, split) \o
                     << NewWire(WireId(h.now, 1), w.compAId, w.portAIndex,
                                id, IF swapped THEN 1 ELSE 0),
                        NewWire(WireId(h.now, 2), id, IF swapped THEN 0 ELSE 1,
                                w.compBId, w.portBIndex) >>
        saved == updateStateWithHistory(u, h, Append(h.components, newComp), nextWires)
    IN  [saved EXCEPT !.selectedIds = {id}, !.placementMode = NoPlacement,
                      !.showProperties = TRUE]

\* addWireWithHistory, for a path that crosses no wire between two other
\* components
addWireWithHistory(u, h, start, end) ==
    IF start.compId = end.compId THEN u
    ELSE LET newWire == NewWire(WireId(h.now, 0), start.compId, start.portId,
                                end.compId, end.portId)
             saved == updateStateWithHistory(u, h, h.components, Append(h.wires, newWire))
         IN  [saved EXCEPT !.connectionStart = NoPort]

\* handleWireJoinWithHistory: a junction at the point, the wire in two halves
\* and a third wire from connectionStart
handleWireJoinWithHistory(u, h, wireId, x, y) ==
    IF h.connectionStart = NoPort THEN u
    ELSE LET jId == JunctionId(h.now, 0)
             w == FindId(h.wires, wireId)
             saved == updateStateWithHistory(u, h,
                         Append(h.components, NewJunction(jId, x, y)),
                         WithoutId(h.wires, wireId) \o
                         << NewWire(WireId(h.now, 1), w.compAId, w.portAIndex, jId, 0),
                            NewWire(WireId(h.now, 2), jId, 0, w.compBId, w.portBIndex),
                            NewWire(WireId(h.now, 3), h.connectionStart.compId,
                                    h.connectionStart.portId, jId, 0) >>)
         IN  [saved EXCEPT !.connectionStart = NoPort]

deleteSelectedWithHistory(u, h) ==
    IF h.selectedIds = {} THEN u
    ELSE LET remainingComponents ==
                 SelectSeq(h.components, LAMBDA c : c.id \notin h.selectedIds)
             remainingWires ==
                 SelectSeq(h.wires, LAMBDA w : /\ w.id \notin h.selectedIds
                                              /\ w.compAId \notin h.selectedIds
                                              /\ w.compBId \notin h.selectedIds)
             saved == updateStateWithHistory(u, h, remainingComponents, remainingWires)
         IN  [saved EXCEPT !.selectedIds = {}]

\* rotateSelectedWithHistory(id), id = NullId for the call without argument
rotateSelectedWithHistory(u, h, id) ==
    LET targetIds == IF id # NullId THEN {id} ELSE h.selectedIds
    IN  IF targetIds = {} THEN u
        ELSE updateStateWithHistory(u, h,
                [i \in 1..Len(h.components) |->
                    IF h.components[i].id \in targetIds
                    THEN [h.components[i] EXCEPT !.rotation = (@ + 1) % 4]
                    ELSE h.components[i]],
                h.wires)

\* rotatePoint (geometry.ts)
rotatePoint(x, y, rotation) ==
    IF rotation = 1 THEN [x |-> -y, y |-> x]
    ELSE IF rotation = 2 THEN [x |-> -x, y |-> -y]
    ELSE IF rotation = 3 THEN [x |-> y, y |-> -x]
    ELSE [x |-> x, y |-> y]

\* getAbsPorts(c)[p]: the only port of a junction is its centre
getAbsPort(c, p) ==
    IF c.type = "junction" THEN [x |-> c.x, y |-> c.y]
    ELSE LET r == rotatePoint(IF p = 0 THEN -40 ELSE 40, 0, c.rotation)
         IN  [x |-> c.x + r.x, y |-> c.y + r.y]

NoLanding == [wire |-> NullId, tee |-> FALSE]

\* handleDragEndWithHistory; landing says what the ports of the dragged
\* component lie on: nothing (wire = NullId), a wire under both ports (tee
\* FALSE) or a wire under port 0 only (tee TRUE)
handleDragEndWithHistory(u, h, id, landing) ==
    IF ~HasId(h.components, id) THEN u
    ELSE IF landing.wire = NullId
    THEN updateStateWithHistory(u, h, h.components, h.wires)
    ELSE LET comp == FindId(h.components, id)
             w == FindId(h.wires, landing.wire)
             rest == WithoutId(h.wires, landing.wire)
             jId == JunctionId(h.now, 0)
             port == getAbsPort(comp, 0)
         IN  IF ~landing.tee
             THEN updateStateWithHistory(u, h, h.components, rest \o
                     << NewWire(WireId(h.now, 1), w.compAId, w.portAIndex, id, 0),
                        NewWire(WireId(h.now, 2), id, 1, w.compBId, w.portBIndex) >>)
             ELSE updateStateWithHistory(u, h,
                     Append(h.components, NewJunction(jId, port.x, port.y)),
                     rest \o
                     << NewWire(WireId(h.now, 1), w.compAId, w.portAIndex, jId, 0),
                        NewWire(WireId(h.now, 2), jId, 0, w.compBId, w.portBIndex),
                        NewWire(WireId(h.now, 3), id, 0, jId, 0) >>)

\* the landings the geometry allows for component id: a wire under both
\* ports is not attached to the component, a wire under port 0 is not
\* attached to port 0
Landings(h, id) ==
    IF id = NullId THEN {NoLanding} ELSE
    {NoLanding} \cup
    { [wire |-> h.wires[i].id, tee |-> FALSE] : i \in
        { j \in 1..Len(h.wires) :
            /\ HasId(h.components, id)
            /\ FindId(h.components, id).type # "junction"
            /\ h.wires[j].compAId # id
            /\ h.wires[j].compBId # id } } \cup
    { [wire |-> h.wires[i].id, tee |-> TRUE] : i \in
        { j \in 1..Len(h.wires) :
            /\ ~(h.wires[j].compAId = id /\ h.wires[j].portAIndex = 0)
            /\ ~(h.wires[j].compBId = id /\ h.wires[j].portBIndex = 0) } }

\* ------------------------------------------------------------------------
\* CircuitCanvas: the mouse and key handlers
\* ------------------------------------------------------------------------
\* what lies under the mouse: a port, a component, a wire or nothing
PortTarget(compId, portId) == [kind |-> "port", id |-> compId, portId |-> portId]

CompTarget(id) == [kind |-> "comp", id |-> id, portId |-> 0]

WireTarget(id) == [kind |-> "wire", id |-> id, portId |-> 0]

NoTarget == [kind |-> "none", id |-> NullId, portId |-> 0]

\* what a mouse event can hit in this model: the canvas, a component, a wire
\* or port 0 of a component
Targets(h) ==
    {NoTarget}
    \cup {CompTarget(h.components[i].id) : i \in 1..Len(h.components)}
    \cup {WireTarget(h.wires[i].id) : i \in 1..Len(h.wires)}
    \cup {PortTarget(h.components[i].id, 0) : i \in 1..Len(h.components)}

\* setComponents(prev => prev.map(c => c.id === id ? {...c, props: {...c.props, closed}} : c))
\* with closed: !c.props.closed (a Switch), true (a PushButton pressed) or
\* false (a PushButton released)
SetClosed(comps, id, how) ==
    [i \in 1..Len(comps) |->
        IF comps[i].id = id
        THEN [comps[i] EXCEPT !.props.closed =
                 IF how = "toggle" THEN ~@ ELSE how = "press"]
        ELSE comps[i]]

\* handleMouseDown with the left button
handleMouseDown(u, h, simulating, target) ==
    IF target.kind = "port"
    THEN IF simulating THEN u
         ELSE [u EXCEPT !.connectionStart = [compId |-> target.id, portId |-> target.portId]]
    ELSE IF target.kind = "comp"
    THEN LET comp == FindId(h.components, target.id)
             sel == IF target.id \in h.selectedIds THEN u
                    ELSE [u EXCEPT !.selectedIds = {target.id}]
         IN  IF simulating
             THEN IF comp.type = "switch"
                  THEN [sel EXCEPT !.components =
                                      SetClosed(@, target.id, "toggle")]
                  ELSE IF comp.type = "pushbutton"
                  THEN [sel EXCEPT !.components =
                                      SetClosed(@, target.id, "press"),
                                   !.activeButtonId = target.id]
                  ELSE sel
             ELSE [sel EXCEPT !.draggingCompId = target.id,
                              !.dragStartPos = [x |-> comp.x, y |-> comp.y],
                              !.showProperties = TRUE]
    ELSE IF target.kind = "wire"
    THEN [u EXCEPT !.selectedIds = {target.id}, !.showProperties = FALSE]
    ELSE [u EXCEPT !.selectedIds = {}, !.showProperties = FALSE]

\* handleMouseDown with the right button
handleMouseDownRight(u, h, target) ==
    IF h.placementMode # NoPlacement
    THEN [u EXCEPT !.placementMode.rotation = (@ + 1) % 4]
    ELSE IF target.kind = "comp"
    THEN [u EXCEPT !.selectedIds = {target.id}, !.contextMenu = target.id]
    ELSE u

\* handleGlobalMouseMove while a component is dragged: the start position
\* plus the snapped distance
handleGlobalMouseMove(u, h, dx, dy) ==
    IF h.draggingCompId = NullId THEN u
    ELSE [u EXCEPT !.components =
            [i \in 1..Len(@) |->
                IF @[i].id = h.draggingCompId
                THEN [@[i] EXCEPT !.x = h.dragStartPos.x + dx, !.y = h.dragStartPos.y + dy]
                ELSE @[i]]]

\* handleMouseUp with the left button: a wire from connectionStart, then a
\* component when placementMode is set
handleMouseUp(u, h, target, x, y, split, swapped) ==
    LET wired ==
            IF h.connectionStart = NoPort THEN u
            ELSE IF target.kind = "port"
            THEN addWireWithHistory(u, h, h.connectionStart,
                                    [compId |-> target.id, portId |-> target.portId])
            ELSE IF target.kind = "wire"
            THEN handleWireJoinWithHistory(u, h, target.id, x, y)
            ELSE u
        placed ==
            IF h.placementMode = NoPlacement THEN wired
            ELSE addComponentWithHistory(wired, h, h.placementMode.type, x, y,
                                         h.placementMode.rotation, split, swapped)
    IN  [placed EXCEPT !.draggingCompId = NullId, !.connectionStart = NoPort]

\* handleGlobalMouseUp, the listener of the window while a component is dragged
handleGlobalMouseUp(u, h, landing) ==
    IF h.draggingCompId = NullId THEN u
    ELSE [handleDragEndWithHistory(u, h, h.draggingCompId, landing)
            EXCEPT !.draggingCompId = NullId, !.dragStartPos = [x |-> 0, y |-> 0]]

\* handleUp, the listener of the window while a push button is held
handleUp(u, h) ==
    IF h.activeButtonId = NullId THEN u
    ELSE [u EXCEPT !.components = SetClosed(@, h.activeButtonId, "release"),
                   !.activeButtonId = NullId]

\* the key handlers of App and of the canvas
handleKeyDown(u, h, simulating, key) ==
    LET edited ==
            IF simulating THEN u
            ELSE IF key = "Delete" THEN deleteSelectedWithHistory(u, h)
            ELSE IF key = "r" THEN rotateSelectedWithHistory(u, h, NullId)
            ELSE IF key = "ctrl+z" THEN undo(u, h)
            ELSE IF key = "ctrl+shift+z" THEN redo(u, h)
            ELSE u
    IN  IF key = "r" /\ h.placementMode # NoPlacement
        THEN [edited EXCEPT !.placementMode.rotation = (@ + 1) % 4]
        ELSE edited

\* ------------------------------------------------------------------------
\* the editor as a state machine
\* ------------------------------------------------------------------------
\* the most events of the user in a session
MaxEvents == 3

\* the grid points components are placed at
GridPoints == {[x |-> 200, y |-> 0]}

\* the snapped distances of a drag
DragDistances == {[x |-> 10, y |-> 0]}

\* the kinds the sidebar places in this model
PlaceTypes == {"resistor"}

Keys == {"Delete", "r", "ctrl+z", "ctrl+shift+z"}

\* the values the properties panel sets the resistance to
PanelValues == {2000}

\* a canvas restored from localStorage: a switch, a push button and a wire;
\* the first effect has put it into the history
LoadedComponents ==
    << NewComponent(1, "switch", 0, 0, 0), NewComponent(2, "pushbutton", 100, 0, 0) >>

LoadedWires == << NewWire(101, 1, 1, 2, 0) >>

LoadedCanvas ==
    [EmptyCanvas EXCEPT !.components = LoadedComponents, !.wires = LoadedWires,
                        !.componentsRef = LoadedComponents, !.wiresRef = LoadedWires,
                        !.history = << [components |-> LoadedComponents,
                                        wires |-> LoadedWires] >>,
                        !.historyIndex = 0, !.now = 3]

\* a canvas after n presses of the key r with the push button selected
RECURSIVE Rotated(_)
Rotated(n) ==
    IF n = 0 THEN [LoadedCanvas EXCEPT !.selectedIds = {2}]
    ELSE LET before == Rotated(n - 1)
             after == rotateSelectedWithHistory(before, before, NullId)
         IN  [after EXCEPT !.componentsRef = after.components,
                           !.wiresRef = after.wires, !.edits = 0, !.events = 0]

\* a session whose history is one entry short of the limit
LongSession == Rotated(HistoryLimit - 2)

InitialCanvases == {EmptyCanvas, LoadedCanvas, LongSession}

\* the effect of App.tsx:108-111 has run since the last render
RefsCurrent == ui.componentsRef = ui.components /\ ui.wiresRef = ui.wires

\* the browser delivers an event of the user: no tick is running and the
\* effects of the last render have run
UserEvent == pc = "idle" /\ RefsCurrent /\ ui.events < MaxEvents

\* an event that changed nothing is not counted
\* Date.now() has advanced when the handler built ids
Stamped(u) ==
    IF u = ui THEN u
    ELSE [u EXCEPT !.now = IF u.edits # ui.edits THEN ui.now + 1 ELSE @,
                   !.events = ui.events + 1]

\* the inputs of a mouse-up that its handlers read: the grid point when a
\* component is placed or a wire is joined, the wire a placed component
\* splits, and the order of its ports along that wire
MousePoints(h) ==
    IF h.placementMode # NoPlacement \/ h.connectionStart # NoPort THEN GridPoints
    ELSE {[x |-> 0, y |-> 0]}

Splits(h) ==
    IF h.placementMode # NoPlacement
    THEN {NullId} \cup {h.wires[i].id : i \in 1..Len(h.wires)}
    ELSE {NullId}

Swaps(h) == IF h.placementMode # NoPlacement /\ h.wires # <<>> THEN BOOLEAN ELSE {FALSE}

solverVars == <<components, wires, dt, simTime, pc, iter, sol, system,
                branchCurrent, ret, warned, pre, writes, ticks>>

\* the sidebar: onPlace
SidebarPlace ==
    /\ UserEvent
    /\ ui.button = "up"
    /\ ~isSimulating
    /\ \E type \in PlaceTypes :
          ui' = Stamped([ui EXCEPT !.placementMode = [type |-> type, rotation |-> 0]])
    /\ UNCHANGED <<solverVars, isSimulating, search>>

\* the left button goes down on the canvas
MouseDown ==
    /\ UserEvent
    /\ ui.button = "up"
    /\ \E target \in Targets(ui) :
          ui' = Stamped([handleMouseDown(ui, ui, isSimulating, target)
                           EXCEPT !.button = "down"])
    /\ UNCHANGED <<solverVars, isSimulating, search>>

\* a click of the right button on the canvas
MouseDownRight ==
    /\ UserEvent
    /\ ui.button = "up"
    /\ \E target \in Targets(ui) : ui' = Stamped(handleMouseDownRight(ui, ui, target))
    /\ UNCHANGED <<solverVars, isSimulating, search>>

\* the mouse moves with the left button down
MouseMove ==
    /\ UserEvent
    /\ ui.button = "down"
    /\ ui.draggingCompId # NullId
    /\ \E d \in DragDistances : ui' = Stamped(handleGlobalMouseMove(ui, ui, d.x, d.y))
    /\ UNCHANGED <<solverVars, isSimulating, search>>

\* the left button goes up: handleMouseUp of the canvas, the two listeners of
\* the window, and the click that closes the context menu
MouseUp ==
    /\ UserEvent
    /\ ui.button = "down"
    /\ \E target \in Targets(ui), p \in MousePoints(ui), swapped \in Swaps(ui),
          split \in Splits(ui), landing \in Landings(ui, ui.draggingCompId) :
          \E r \in {Stamped(handleUp(handleGlobalMouseUp(
                       handleMouseUp(ui, ui, target, p.x, p.y, split, swapped),
                       ui, landing), ui))} :
             ui' = [r EXCEPT !.button = "up", !.contextMenu = NullId]
    /\ UNCHANGED <<solverVars, isSimulating, search>>

\* a key goes down: handleKeyDown of App and of the canvas
KeyDown ==
    /\ UserEvent
    /\ \E key \in Keys :
          \E r \in {Stamped(handleKeyDown(ui, ui, isSimulating, key))} :
             ui' = r
    /\ UNCHANGED <<solverVars, isSimulating, search>>

\* Rotate of the context menu
ContextRotate ==
    /\ UserEvent
    /\ ui.button = "up"
    /\ ui.contextMenu # NullId
    /\ \E r \in {Stamped(rotateSelectedWithHistory(ui, ui, ui.contextMenu))} :
          ui' = [r EXCEPT !.contextMenu = NullId]
    /\ UNCHANGED <<solverVars, isSimulating, search>>

\* Delete of the context menu
ContextDelete ==
    /\ UserEvent
    /\ ui.button = "up"
    /\ ui.contextMenu # NullId
    /\ \E r \in {Stamped(deleteSelectedWithHistory(ui, ui))} :
          ui' = [r EXCEPT !.contextMenu = NullId]
    /\ UNCHANGED <<solverVars, isSimulating, search>>

\* the Undo button, disabled while historyIndex <= 0
UndoClick ==
    /\ UserEvent
    /\ ui.button = "up"
    /\ ui.historyIndex > 0
    /\ ui' = Stamped([undo(ui, ui) EXCEPT !.contextMenu = NullId])
    /\ UNCHANGED <<solverVars, isSimulating, search>>

\* the Redo button, disabled while historyIndex >= history.length - 1
RedoClick ==
    /\ UserEvent
    /\ ui.button = "up"
    /\ ui.historyIndex < Len(ui.history) - 1
    /\ ui' = Stamped([redo(ui, ui) EXCEPT !.contextMenu = NullId])
    /\ UNCHANGED <<solverVars, isSimulating, search>>

\* the properties panel: onUpdateCompProps of the first selected component
PropertiesEdit ==
    /\ UserEvent
    /\ ui.button = "up"
    /\ ui.showProperties
    /\ \E id \in ui.selectedIds, value \in PanelValues :
          /\ HasId(ui.components, id)
          /\ ui' = Stamped([ui EXCEPT !.components =
                       [i \in 1..Len(@) |->
                           IF @[i].id = id THEN [@[i] EXCEPT !.props.resistance = value]
                           ELSE @[i]]])
    /\ UNCHANGED <<solverVars, isSimulating, search>>

\* the interval of App.tsx:122-130: solve works on the lists of the refs and
\* writes simData only; then copies of the lists of the refs become the state
IntervalTick ==
    /\ pc = "idle"
    /\ isSimulating
    /\ ticks < MaxTicks
    /\ simTime' = FAdd(simTime, dt)
    /\ ticks' = ticks + 1
    /\ ui' = [ui EXCEPT !.components = ui.componentsRef, !.wires = ui.wiresRef]
    /\ UNCHANGED <<components, wires, dt, isSimulating, pc, iter, sol, system,
                   branchCurrent, ret, warned, pre, writes, search>>

\* the effect of App.tsx:108-111: the refs take the lists of the last render
SyncRefs ==
    /\ pc = "idle"
    /\ ~RefsCurrent
    /\ ui' = [ui EXCEPT !.componentsRef = ui.components, !.wiresRef = ui.wires]
    /\ UNCHANGED <<solverVars, isSimulating, search>>

InitApp ==
    /\ ui \in InitialCanvases
    /\ search = NoSearch
    /\ components = <<>>
    /\ wires = <<>>
    /\ dt \in DtChoices
    /\ simTime = Zero
    /\ isSimulating = FALSE
    /\ pc = "idle"
    /\ iter = 0
    /\ sol = <<>>
    /\ system = NoSystem
    /\ branchCurrent = <<>>
    /\ ret = "none"
    /\ warned = FALSE
    /\ pre = [c |-> <<>>, w |-> <<>>]
    /\ writes = [c |-> <<>>, w |-> <<>>]
    /\ ticks = 0

NextApp ==
    \/ ToggleRun
    \/ resetSimulation
    \/ SidebarPlace
    \/ MouseDown
    \/ MouseDownRight
    \/ MouseMove
    \/ MouseUp
    \/ KeyDown
    \/ ContextRotate
    \/ ContextDelete
    \/ UndoClick
    \/ RedoClick
    \/ PropertiesEdit
    \/ IntervalTick
    \/ SyncRefs

SpecApp == InitApp /\ [][NextApp]_vars

\* ------------------------------------------------------------------------
\* properties
\* ------------------------------------------------------------------------
\* the seven telemetry fields of the solver's output
TelemetryFields == {"voltage", "current", "power", "vPk", "iPk", "vRms", "iRms"}

Ports == PortList(components, <<>>)

InCall == pc \in {"loop", "update", "returned", "aborted"}

SimDataUnchanged ==
    /\ SimDataOf(components) = pre.c
    /\ SimDataOf(wires) = pre.w

NonFinite(a) == a.k \in {"inf", "nan"}

\* C1: after every solve call that completes, the solved value of unknown 0
\* (the ground node) is exactly 0
C1_GroundIsZero == pc = "returned" => sol[0] = Zero

\* C2: when a solve call aborts on divergence, every simData field of every
\* component and wire has its pre-call value
C2_AbortLeavesSimData == pc = "aborted" => SimDataUnchanged

\* C3: a solution with a non-finite entry (NaN, +Infinity, -Infinity) aborts
\* the call, so the loop never continues with one and the state update never
\* runs on one; no non-finite value reaches simData
C3_NonFiniteAborts ==
    /\ pc \in {"loop", "update", "returned"} => \A i \in DOMAIN sol : IsFinite(sol[i])
    /\ \A i \in 1..Len(components) : \A f \in SimFields :
          ~NonFinite(components[i].simData[f])
    /\ \A i \in 1..Len(wires) : \A f \in SimFields : ~NonFinite(wires[i].simData[f])

\* what a solve call that ran to completion hands to its caller
SuccessOutcome == "undefined"

\* C4: the caller can tell an aborted call from a successful one: what an
\* aborted call hands back differs from what a successful call hands back
C4_DivergenceSignalled ==
    /\ pc = "returned" => ret = SuccessOutcome
    /\ pc = "aborted" => ret # SuccessOutcome

\* two batteries of different voltage wired across the same pair of nodes
Contradictory ==
    /\ Len(components) = 2
    /\ components[1].type = "battery" /\ components[2].type = "battery"
    /\ Or(components[1].props.voltage, Dec(9, 0)) # Or(components[2].props.voltage, Dec(9, 0))
    /\ \E i, j \in 1..Len(wires) :
          /\ <<wires[i].compAId, wires[i].portAIndex, wires[i].compBId, wires[i].portBIndex>>
                = <<components[1].id, 0, components[2].id, 0>>
          /\ <<wires[j].compAId, wires[j].portAIndex, wires[j].compBId, wires[j].portBIndex>>
                = <<components[1].id, 1, components[2].id, 1>>

\* C5: a solve call on a contradictory topology leaves the telemetry of every
\* component and wire identical to its pre-call values
C5_ContradictoryUnchanged ==
    (Contradictory /\ pc \in {"returned", "aborted"}) =>
        /\ \A i \in 1..Len(components) : \A f \in TelemetryFields :
              components[i].simData[f] = pre.c[i][f]
        /\ \A i \in 1..Len(wires) : \A f \in TelemetryFields :
              wires[i].simData[f] = pre.w[i][f]

\* C6: no simData field is written while the iteration loop runs; the writes
\* happen after the last linear solve, each telemetry field exactly once
C6_WritesAfterLoopOnce ==
    /\ pc \in {"loop", "update", "aborted"} =>
          /\ \A i \in 1..Len(components) : \A f \in SimFields : writes.c[i][f] = 0
          /\ \A i \in 1..Len(wires) : \A f \in SimFields : writes.w[i][f] = 0
    /\ pc = "returned" =>
          /\ \A i \in 1..Len(components) : \A f \in SimFields : writes.c[i][f] <= 1
          /\ \A i \in 1..Len(wires) : \A f \in SimFields : writes.w[i][f] <= 1
          /\ \A i \in 1..Len(components) : \A f \in TelemetryFields :
                components[i].type # "junction" => writes.c[i][f] = 1
          /\ \A i \in 1..Len(wires) : \A f \in TelemetryFields : writes.w[i][f] = 1

\* C7: a solve call returns or aborts for every topology, the empty component
\* list included; it never ends by throwing
C7_NeverThrows == pc # "thrown"

\* the constraint row of source i: +1 at port 1, -1 at port 0, value on the right
ConstraintRow(i, value) ==
    LET c == components[i]
        idx == SourceIndex(c, Ports, VoltageSources(components))
        row == system.A[idx]
    IN  /\ system.B[idx] = value
        /\ \A j \in DOMAIN row :
              row[j] = IF j = PMapGet(Ports, c.id, 1) THEN One
                       ELSE IF j = PMapGet(Ports, c.id, 0) THEN FNeg(One)
                       ELSE Zero

\* C8: the constraint row of every ideal source reads V(port 1) - V(port 0) =
\* the configured value: the voltage of a Battery, amplitude * sin(2 pi *
\* frequency * simTime) of an ACSource, a configured 0 included
C8_SourceConstraint ==
    (InCall /\ system # NoSystem) =>
        \A i \in 1..Len(components) :
            /\ (components[i].type = "battery" /\ IsFinite(components[i].props.voltage))
                  => ConstraintRow(i, components[i].props.voltage)
            /\ (components[i].type = "ac_source" /\ IsFinite(components[i].props.amplitude)
                  /\ IsFinite(components[i].props.frequency))
                  => ConstraintRow(i, FMul(components[i].props.amplitude,
                                           FSin(FMul(FMul(FMul(Dec(2, 0), PI),
                                                          components[i].props.frequency),
                                                     simTime))))

\* no wire joins the two ports of component c
NotBridged(c) ==
    \A i \in 1..Len(wires) :
        ~(wires[i].compAId = c.id /\ wires[i].compBId = c.id
             /\ wires[i].portAIndex # wires[i].portBIndex)

\* C9: a Resistor with configured resistance R is stamped with conductance
\* 1/R, and the state update computes its current as branchVoltage / R with
\* the same R, very small R and R = 0 included
C9_ResistorLaw ==
    pc = "returned" =>
        \A i \in 1..Len(components) :
            (components[i].type = "resistor" /\ IsFinite(components[i].props.resistance)
                /\ NotBridged(components[i])) =>
                LET c == components[i]
                    u == PMapGet(Ports, c.id, 0)
                    v == PMapGet(Ports, c.id, 1)
                IN  /\ system.A[v][u] = FNeg(FDiv(One, c.props.resistance))
                    /\ branchCurrent[i] = FDiv(FSub(sol[u], sol[v]), c.props.resistance)

\* C10 as stated: after a successful solve every non-Junction component and
\* every wire has all seven telemetry fields written
C10_AllSevenEverywhere ==
    pc = "returned" =>
        /\ \A i \in 1..Len(components) : \A f \in TelemetryFields :
              components[i].type # "junction" => writes.c[i][f] >= 1
        /\ \A i \in 1..Len(wires) : \A f \in TelemetryFields : writes.w[i][f] >= 1

\* C10 amended: after a successful solve every non-Junction component has all
\* seven telemetry fields written from the final solution, and every wire
\* between two listed ports has voltage, current and power written from it,
\* its peak and RMS fields not being written
C10_TelemetryUpdated ==
    pc = "returned" =>
        /\ \A i \in 1..Len(components) :
              components[i].type # "junction" =>
                 LET sd == components[i].simData
                     nv == FSub(sol[PMapGet(Ports, components[i].id, 0)],
                                sol[PMapGet(Ports, components[i].id, 1)])
                 IN  /\ \A f \in TelemetryFields : writes.c[i][f] = 1 /\ sd[f].k # "undef"
                     /\ sd.voltage = FAbs(nv)
                     /\ sd.current = Smooth(pre.c[i].current, branchCurrent[i], alphaComponent)
                     /\ sd.power = FMul(sd.voltage, FAbs(sd.current))
                     /\ ~FLt(sd.vPk, sd.voltage)
                     /\ ~FLt(sd.iPk, FAbs(sd.current))
        /\ \A i \in 1..Len(wires) :
              WireResolved(wires[i], Ports) =>
                 LET sd == wires[i].simData
                     d == FSub(sol[PMapGet(Ports, wires[i].compAId, wires[i].portAIndex)],
                               sol[PMapGet(Ports, wires[i].compBId, wires[i].portBIndex)])
                 IN  /\ \A f \in {"voltage", "current", "power"} : writes.w[i][f] = 1
                     /\ \A f \in {"vPk", "iPk", "vRms", "iRms"} : writes.w[i][f] = 0
                     /\ sd.voltage = FAbs(d)
                     /\ sd.current = Smooth(pre.w[i].current, FDiv(d, R_Ideal), alphaWire)
                     /\ sd.power = FAbs(FMul(sd.voltage, sd.current))

\* a successful solve on a circuit with a junction, a live component and a
\* wire that carries current
C10_Witness ==
    /\ pc = "returned"
    /\ \E i \in 1..Len(components) : components[i].type = "junction"
    /\ \E i \in 1..Len(components) :
          components[i].type = "resistor" /\ components[i].simData.current # Zero
    /\ \E i \in 1..Len(wires) :
          WireResolved(wires[i], Ports) /\ wires[i].simData.current # Zero

\* the current through wire w in solution s: the voltage across it over the
\* stamped wire resistance
WireCurrent(w, s) ==
    FDiv(FSub(s[PMapGet(Ports, w.compAId, w.portAIndex)],
              s[PMapGet(Ports, w.compBId, w.portBIndex)]), R_Ideal)

\* C11: after a successful solve the displayed current of every non-Junction
\* component is old * 0.5 + new * 0.5 and of every wire old * 0.8 + new * 0.2,
\* old being the displayed current before the call and new the branch current
\* of the final solution; an inductor's storedCurrent is the unsmoothed new
C11_SmoothedCurrent ==
    pc = "returned" =>
        /\ \A i \in 1..Len(components) :
              components[i].type # "junction" =>
                 /\ components[i].simData.current =
                       FAdd(FMul(pre.c[i].current, Dec(5, -1)),
                            FMul(branchCurrent[i], Dec(5, -1)))
                 /\ components[i].type = "inductor" =>
                       components[i].simData.storedCurrent = branchCurrent[i]
        /\ \A j \in 1..Len(wires) :
              WireResolved(wires[j], Ports) =>
                 wires[j].simData.current =
                    FAdd(FMul(pre.w[j].current, Dec(8, -1)),
                         FMul(WireCurrent(wires[j], sol), Dec(2, -1)))

\* a second solve has returned for a circuit with an inductor: the displayed
\* currents before the call were not 0, and the stored current of the
\* inductor differs from its displayed current
C11_Witness ==
    /\ pc = "returned"
    /\ \E i \in 1..Len(components) :
          /\ components[i].type = "inductor"
          /\ pre.c[i].current # Zero
          /\ components[i].simData.storedCurrent # components[i].simData.current
    /\ \E j \in 1..Len(wires) :
          pre.w[j].current # Zero /\ wires[j].simData.current # pre.w[j].current

\* a >= b as the code's comparison decides it (false on NaN)
FGe(a, b) == ~IsNaN(a) /\ ~IsNaN(b) /\ ~FLt(a, b)

\* C12: after every successful solve and for every non-Junction component,
\* vPk = max(|voltage|, previous vPk * 0.999) and iPk = max(|current|,
\* previous iPk * 0.999); hence vPk >= |voltage| and iPk >= |current|, and a
\* call lowers no peak by more than the factor 0.999
C12_PeakHold ==
    pc = "returned" =>
        \A i \in 1..Len(components) :
           components[i].type # "junction" =>
              LET sd == components[i].simData
                  vOld == FMul(Or(pre.c[i].vPk, Zero), Dec(999, -3))
                  iOld == FMul(Or(pre.c[i].iPk, Zero), Dec(999, -3))
              IN  /\ sd.vPk = FMax(FAbs(sd.voltage), vOld)
                  /\ sd.iPk = FMax(FAbs(sd.current), iOld)
                  /\ FGe(sd.vPk, FAbs(sd.voltage))
                  /\ FGe(sd.iPk, FAbs(sd.current))
                  /\ FGe(sd.vPk, vOld)
                  /\ FGe(sd.iPk, iOld)

\* a second solve has returned and a component's current peak is the decayed
\* previous peak, above the displayed current, while its voltage peak is the
\* displayed voltage
C12_Witness ==
    /\ pc = "returned"
    /\ \E i \in 1..Len(components) :
          LET sd == components[i].simData
          IN  /\ components[i].type # "junction"
              /\ ~IsNaN(pre.c[i].iPk)
              /\ sd.iPk = FMul(pre.c[i].iPk, Dec(999, -3))
              /\ FGt(sd.iPk, FAbs(sd.current))
              /\ sd.vPk = sd.voltage
              /\ FGt(sd.vPk, Zero)

\* simData sd has voltage, current, power and the stored fields at 0 and no
\* peak or RMS accumulator
Zeroed(sd) ==
    /\ \A f \in {"voltage", "current", "power", "storedVoltage", "storedCurrent"} :
          sd[f] = Zero
    /\ \A f \in {"vPk", "iPk", "vRms", "iRms", "vSqSum", "iSqSum"} : sd[f] = Undef

\* the persisted state the stamps read from simData sd is zero
PersistedZero(sd) ==
    /\ Or(sd.storedVoltage, Zero) = Zero
    /\ Or(sd.storedCurrent, Zero) = Zero

\* the state after a step of resetSimulation
ResetDone ==
    /\ \A i \in 1..Len(components) : Zeroed(components[i].simData)'
    /\ \A j \in 1..Len(wires) : Zeroed(wires[j].simData)'
    /\ simTime' = Zero
    /\ isSimulating' = FALSE

CallComponents == [i \in 1..Len(components) |-> [components[i] EXCEPT !.simData = pre.c[i]]]

CallWires == [j \in 1..Len(wires) |-> [wires[j] EXCEPT !.simData = pre.w[j]]]

\* the ports of the components before component i in the list
PortsBefore(i) ==
    Cardinality({k \in 1..(i - 1) : TRUE}) +
    Cardinality({k \in 1..(i - 1) : components[k].type # "junction"})

\* C14: the telemetry and persisted state a solve call ends with are a
\* function of the call's arguments alone (components with parameters and
\* simData, wires with simData, dt, simTime), whatever calls came before;
\* node indices follow the declared order of the components
C14_Deterministic ==
    /\ pc \in {"returned", "aborted", "thrown"} =>
          LET r == solve(CallComponents, CallWires, dt, simTime)
          IN  /\ r.outcome = pc
              /\ r.components = components
              /\ r.wires = wires
    /\ \A i \in 1..Len(components) :
          /\ PMapGet(Ports, components[i].id, 0) = PortsBefore(i)
          /\ components[i].type # "junction" =>
                PMapGet(Ports, components[i].id, 1) = PortsBefore(i) + 1

\* a solve call has returned that started from stored state and telemetry
\* which an earlier call had written
C14_Witness ==
    /\ pc = "returned"
    /\ ticks >= 1
    /\ \E i \in 1..Len(components) :
          /\ IsCapacitor(components[i])
          /\ IsFinite(pre.c[i].storedVoltage)
          /\ pre.c[i].storedVoltage # Zero
          /\ components[i].simData.storedVoltage # pre.c[i].storedVoltage

\* the call that has just returned found the circuit at rest: it changed no
\* component's voltage and no persisted value
SteadyState ==
    /\ pc = "returned"
    /\ \A i \in 1..Len(components) :
          /\ components[i].simData.voltage = pre.c[i].voltage
          /\ components[i].simData.storedVoltage = pre.c[i].storedVoltage
          /\ components[i].simData.storedCurrent = pre.c[i].storedCurrent
    /\ \A j \in 1..Len(wires) : wires[j].simData.voltage = pre.w[j].voltage

\* simData sd of a component after one more state update towards the
\* unchanged voltage and the unchanged unsmoothed current nc
Settling(sd, nc) ==
    LET cur == Smooth(sd.current, nc, alphaComponent)
        vSq == Smooth(Or(sd.vSqSum, Zero), FMul(sd.voltage, sd.voltage), rmsAlpha)
        iSq == Smooth(Or(sd.iSqSum, Zero), FMul(cur, cur), rmsAlpha)
    IN  [sd EXCEPT !.current = cur,
                   !.power = FMul(sd.voltage, FAbs(cur)),
                   !.vPk = FMax(FAbs(sd.voltage), FMul(Or(sd.vPk, Zero), decay)),
                   !.iPk = FMax(FAbs(cur), FMul(Or(sd.iPk, Zero), decay)),
                   !.vSqSum = vSq,
                   !.vRms = FSqrt(vSq),
                   !.iSqSum = iSq,
                   !.iRms = FSqrt(iSq)]

IsRCLoop ==
    /\ Len(components) = 3
    /\ {components[i].type : i \in 1..3} = {"battery", "resistor", "capacitor"}
    /\ wires # <<>>

\* the configured voltage of the Battery of the loop
LoopBattery == components[CHOOSE i \in 1..Len(components) : components[i].type = "battery"]

\* C16: in a series loop of Battery V, Resistor R and Capacitor C that started
\* with storedVoltage = 0, after every tick the magnitude of the capacitor's
\* storedVoltage is at least what it was before the tick and at most V
C16_RCCharging ==
    (IsRCLoop /\ pc = "returned") =>
       \A i \in 1..Len(components) :
          IsCapacitor(components[i]) =>
             /\ ~FLt(FAbs(components[i].simData.storedVoltage),
                     FAbs(Or(pre.c[i].storedVoltage, Zero)))
             /\ ~FGt(FAbs(components[i].simData.storedVoltage),
                     LoopBattery.props.voltage)

\* a series loop of an AC source, a Resistor and a rectifier Diode
IsRectifierLoop ==
    /\ Len(components) = 3
    /\ {components[i].type : i \in 1..3} = {"ac_source", "resistor", "diode"}
    /\ wires # <<>>

\* the component of the given type in a loop that has one
LoopPart(type) == components[CHOOSE i \in 1..Len(components) : components[i].type = type]

\* amplitude * sin(2 pi frequency t) of the configured amplitude and frequency
InstantaneousVoltage(c, t) ==
    FMul(c.props.amplitude,
         FSin(FMul(FMul(FMul(Dec(2, 0), PI), c.props.frequency), t)))

\* |a - b| <= rel * |b|
Near(a, b, rel) == ~FGt(FAbs(FSub(a, b)), FMul(rel, FAbs(b)))

\* C17: in a series loop of an AC source, a Resistor R and a rectifier Diode,
\* after every tick the diode's reported current is about 0 (below 1e-6 A)
\* when the source voltage of the tick is below 0.7 V and within 1 % of
\* (V - 0.7) / (R_on + R) when it is above
C17_RectifierCurrent ==
    (IsRectifierLoop /\ pc = "returned") =>
       LET V == InstantaneousVoltage(LoopPart("ac_source"), simTime)
           R == LoopPart("resistor").props.resistance
           reported == LoopPart("diode").simData.current
       IN  /\ FLt(V, Dec(7, -1)) => FLt(FAbs(reported), Dec(1, -6))
           /\ FGt(V, Dec(7, -1)) =>
                 Near(reported, FDiv(FSub(V, Dec(7, -1)), FAdd(R_on, R)), Dec(1, -2))

\* a Resistor wired across a Battery
IsBatteryResistorLoop ==
    /\ Len(components) = 2
    /\ {components[i].type : i \in 1..2} = {"battery", "resistor"}
    /\ wires # <<>>

\* C18: with a Resistor R across a Battery V, once the ticks no longer change
\* the voltages, the current the reported current of the Resistor settles at
\* (each tick moves it halfway to the unsmoothed branch current, so that is
\* its limit) is V / R within 0.1 %
C18_SteadyCurrent ==
    (IsBatteryResistorLoop /\ SteadyState) =>
       \A i \in 1..Len(components) :
          components[i].type = "resistor" =>
             Near(FAbs(branchCurrent[i]),
                  FAbs(FDiv(LoopPart("battery").props.voltage,
                            components[i].props.resistance)),
                  Dec(1, -3))

\* C19: a solve call that ends without aborting has performed MAX_ITERATIONS
\* iterations, and what its state update wrote is the update from the
\* solution of the last of them
C19_FiftyIterations ==
    /\ pc \in {"update", "returned", "thrown"} => iter = MAX_ITERATIONS
    /\ pc = "returned" =>
          StateUpdate(CallComponents,
                      [j \in 1..Len(wires) |-> StampedWire(CallWires[j], Ports)],
                      sol, dt).components = components

\* the region of the diode between nodes u and v that system sys was stamped
\* with: blocking leaves -G_off in A[u][v]; forward and zener leave -1/R_on
\* there and differ in the sign of the offset source in B[u]
StampedRegion(sys, u, v) ==
    IF sys.A[u][v] = FNeg(G_off) THEN "blocking"
    ELSE IF FGt(sys.B[u], Zero) THEN "forward"
    ELSE "zener"

\* C20: iteration k > 0 stamps every Diode and LED with the region of
\* Vd = V(port 0) - V(port 1) in the solution of iteration k - 1; iteration 0
\* stamps it as blocking when V_fwd > 0 and V_zener > 0, whatever the earlier
\* ticks left behind
C20_RegionFromPreviousIteration ==
    [][(Iterate /\ pc' # "thrown") =>
          \A i \in 1..Len(components) :
             components[i].type \in {"diode", "led"} =>
                LET c == components[i]
                    u == PMapGet(Ports, c.id, 0)
                    v == PMapGet(Ports, c.id, 1)
                    Vd == FSub(sol[u], sol[v])
                IN  /\ iter > 0 =>
                          StampedRegion(system', u, v) =
                             IF FGt(Vd, DiodeVfwd(c)) THEN "forward"
                             ELSE IF c.props.diodeType = "zener"
                                     /\ FLt(Vd, FNeg(DiodeVzener(c)))
                                  THEN "zener"
                             ELSE "blocking"
                    /\ (iter = 0 /\ FGt(DiodeVfwd(c), Zero) /\ FGt(DiodeVzener(c), Zero)) =>
                          StampedRegion(system', u, v) = "blocking"]_vars

\* iteration 0 of a later tick has stamped a diode as blocking although the
\* tick before left more than V_fwd as its displayed voltage, and iteration 1
\* is about to decide from the solution of iteration 0
C20_Witness ==
    /\ pc = "loop"
    /\ iter = 1
    /\ ticks >= 1
    /\ \E i \in 1..Len(components) :
          /\ components[i].type = "diode"
          /\ FGt(components[i].simData.voltage, DiodeVfwd(components[i]))
          /\ StampedRegion(system, PMapGet(Ports, components[i].id, 0),
                           PMapGet(Ports, components[i].id, 1)) = "blocking"
          /\ FGt(FSub(sol[PMapGet(Ports, components[i].id, 0)],
                      sol[PMapGet(Ports, components[i].id, 1)]),
                 DiodeVfwd(components[i]))

\* the (component, port) pairs of the list: port 0 of every component and
\* port 1 of every component that is not a Junction
PortPairs ==
    {<<i, 0>> : i \in 1..Len(components)}
    \cup {<<i, 1>> : i \in {k \in 1..Len(components) : components[k].type # "junction"}}

\* the unknown index of a (component, port) pair
PairIndex(q) == PMapGet(Ports, components[q[1]].id, q[2])

\* the positions of the ideal sources in the list
SourcePositions == {i \in 1..Len(components) : IsSource(components[i])}

\* C21: every (component, port) pair has an unknown index of its own, a
\* Junction has no port 1, the indices 0, 1, 2, ... follow the declared order
\* of the components, and the unknown vector has one entry per port and one
\* further entry per ideal source, each source with an index of its own
C21_TopologyMap ==
    /\ \A q \in PortPairs : PairIndex(q) \in 0..(Len(Ports) - 1)
    /\ \A q, r \in PortPairs :
          (q[1] < r[1] \/ (q[1] = r[1] /\ q[2] < r[2])) => PairIndex(q) < PairIndex(r)
    /\ \A i \in 1..Len(components) :
          components[i].type = "junction" => PMapGet(Ports, components[i].id, 1) = -1
    /\ Len(Ports) = Cardinality(PortPairs)
    /\ MatrixSize(components) = Cardinality(PortPairs) + Cardinality(SourcePositions)
    /\ \A i \in SourcePositions :
          SourceIndex(components[i], Ports, VoltageSources(components))
             \in Len(Ports)..(MatrixSize(components) - 1)
    /\ \A i, j \in SourcePositions :
          i # j => SourceIndex(components[i], Ports, VoltageSources(components))
                   # SourceIndex(components[j], Ports, VoltageSources(components))

\* a call is solving a list with two ideal sources
C21_Witness ==
    /\ pc = "loop"
    /\ Cardinality(SourcePositions) = 2
    /\ Cardinality(DOMAIN sol) = 6

\* A and B of one iteration after all stamps, before the ground reference
StampedSystem(comps, ws, prevSol, it, step, time) ==
    LET pl == PortList(comps, <<>>)
        size == MatrixSize(comps)
        empty == [A |-> Array([i \in 0..(size - 1) |-> [j \in 0..(size - 1) |-> Zero]]),
                  B |-> Array([i \in 0..(size - 1) |-> Zero])]
    IN  Then(StampWires(empty, ws, pl),
             LAMBDA wired : StampComponents(wired, comps, pl, VoltageSources(comps),
                                            prevSol, it, step, time))

\* C22: the system every iteration hands to the linear solver is the stamped
\* system with G_min added to every one of its diagonal entries, those of the
\* rows of the ideal sources included, and row 0 then replaced by the
\* identity row with B[0] = 0
C22_GroundNormalization ==
    [][(Iterate /\ pc' # "thrown") =>
          system' = GroundReference(StampedSystem(components, wires', sol, iter, dt, simTime),
                                    MatrixSize(components), MatrixSize(components))]_vars

\* the copies M and x of the system after the elimination loop
Eliminated(ab) == Eliminate([M |-> ab.A, x |-> ab.B], 0, Cardinality(DOMAIN ab.B))

\* column i was left without a pivot of magnitude 1e-20 or more
FreeColumn(Mx, i) == FLt(FAbs(Mx.M[i][i]), Dec(1, -20))

\* C23: the linear solver returns a solution for every system: 0 in every
\* column whose best remaining pivot is below 1e-20, the back-substituted
\* value in every other column; A and B are after the call what the
\* iteration stamped
C23_FreeVariables ==
    [][(Iterate /\ pc' \in {"loop", "update"}) =>
          /\ system' = BuildSystem(components, wires', sol, iter, dt, simTime)
          /\ DOMAIN sol' = DOMAIN system'.B
          /\ \E Mx \in {Eliminated(system')} :
                \A i \in DOMAIN sol' :
                   sol'[i] = IF FreeColumn(Mx, i) THEN Zero
                             ELSE FDiv(FSub(Mx.x[i],
                                            RowSum(Mx.M[i], sol', i + 1,
                                                   Cardinality(DOMAIN sol'), Zero)),
                                       Mx.M[i][i])]_vars

\* a call has solved a singular system: a column without pivot, its solution
\* component 0
C23_Witness ==
    /\ pc \in {"loop", "update"}
    /\ iter >= 1
    /\ \E i \in DOMAIN sol :
          /\ FreeColumn(Eliminated(system), i)
          /\ sol[i] = Zero

\* the stored state of component i is what it was when the call began and no
\* assignment to it has been made
StoredUntouched(i) ==
    /\ components[i].simData.storedVoltage = pre.c[i].storedVoltage
    /\ components[i].simData.storedCurrent = pre.c[i].storedCurrent
    /\ writes.c[i].storedVoltage = 0
    /\ writes.c[i].storedCurrent = 0

\* the companion current of inductor c at the stored current the call began with
InductorCurrent(c, before, nv) ==
    FAdd(FMul(InductorGeq(c, dt), nv),
         InductorIeq([c EXCEPT !.simData = before], dt))

\* C24: while the iterations of a call run, and in a call that ends without a
\* state update, storedVoltage and storedCurrent of every component are the
\* values of the previous tick; the state update assigns storedVoltage of a
\* capacitor and storedCurrent of an inductor once, to the branch voltage and
\* the branch current of the last solution, and the current of a capacitor is
\* G * (newVoltage - storedVoltage of the previous tick)
C24_StoredStateOncePerCall ==
    /\ pc \in {"loop", "update", "aborted", "thrown"} =>
          \A i \in 1..Len(components) : StoredUntouched(i)
    /\ pc = "returned" =>
          \A i \in 1..Len(components) :
             LET c == components[i]
                 nv == BranchVoltage(c, sol, PortList(components, <<>>))
             IN  /\ writes.c[i].storedVoltage = IF IsCapacitor(c) THEN 1 ELSE 0
                 /\ writes.c[i].storedCurrent = IF c.type = "inductor" THEN 1 ELSE 0
                 /\ IsCapacitor(c) =>
                       /\ c.simData.storedVoltage = nv
                       /\ branchCurrent[i] =
                             FMul(CapacitorG(c, dt),
                                  FSub(nv, Or(pre.c[i].storedVoltage, Zero)))
                       /\ c.simData.current =
                             Smooth(pre.c[i].current, branchCurrent[i], alphaComponent)
                 /\ ~IsCapacitor(c) => c.simData.storedVoltage = pre.c[i].storedVoltage
                 /\ c.type = "inductor" =>
                       /\ c.simData.storedCurrent = InductorCurrent(c, pre.c[i], nv)
                       /\ branchCurrent[i] = c.simData.storedCurrent
                 /\ c.type # "inductor" => c.simData.storedCurrent = pre.c[i].storedCurrent

\* a call on a charged capacitor has run to completion: the stored voltage of
\* the previous tick is not zero, and the new one differs from it
C24_Witness ==
    /\ pc = "returned"
    /\ \E i \in 1..Len(components) :
          /\ IsCapacitor(components[i])
          /\ pre.c[i].storedVoltage \notin {Zero, Undef}
          /\ components[i].simData.storedVoltage # pre.c[i].storedVoltage
          /\ branchCurrent[i] # Zero

\* what a component is apart from its telemetry; a junction with its simData
ComponentTopology(c) ==
    [id |-> c.id, type |-> c.type, props |-> c.props,
     simData |-> IF c.type = "junction" THEN c.simData ELSE NewSimData]

\* the endpoints of a wire
WireTopology(w) ==
    [compAId |-> w.compAId, portAIndex |-> w.portAIndex,
     compBId |-> w.compBId, portBIndex |-> w.portBIndex]

Topology(comps, ws) ==
    [components |-> [i \in 1..Len(comps) |-> ComponentTopology(comps[i])],
     wires |-> [i \in 1..Len(ws) |-> WireTopology(ws[i])]]

\* C25: no step of a solve call, from its entry to its return, abort or
\* throw, changes the component list or the wire list (length, order, ids),
\* the kind or the props of a component, the endpoints of a wire, or any
\* simData field of a junction
C25_TopologyUnchanged ==
    [][(pc # "idle" \/ pc' # "idle") =>
          Topology(components', wires') = Topology(components, wires)]_vars

\* a call on a circuit with a junction and a wire has run to completion and
\* has changed the telemetry of a component
C25_Witness ==
    /\ pc = "returned"
    /\ Len(wires) > 0
    /\ \E i \in 1..Len(components) : components[i].type = "junction"
    /\ \E i \in 1..Len(components) : components[i].simData # pre.c[i]

\* the circuit on the canvas: the components without their props, and the wires
Layout(u) ==
    [components |-> [i \in 1..Len(u.components) |->
                        [id |-> u.components[i].id, type |-> u.components[i].type,
                         x |-> u.components[i].x, y |-> u.components[i].y,
                         rotation |-> u.components[i].rotation]],
     wires |-> u.wires]

\* C26: while isSimulating is true no event of the user adds, deletes, moves
\* or rotates a component, adds or deletes a wire, or applies an undo or a
\* redo
C26_NoEditWhileSimulating ==
    [][(isSimulating /\ ui'.events # ui.events) =>
          /\ Layout(ui') = Layout(ui)
          /\ ui'.history = ui.history
          /\ ui'.historyIndex = ui.historyIndex]_vars

\* the closed flag of every component of a list, by id
ClosedFlags(comps) == {<<comps[i].id, comps[i].props.closed>> : i \in 1..Len(comps)}

\* C27: whatever the order of the interval tick, a toggle of a Switch or a
\* PushButton made while simulating and the effect that copies the state into
\* componentsRef, the publish of a tick never changes a closed flag of the
\* state: a toggle is not overwritten by the list of a stale ref
C27_ToggleNeverLost ==
    [][ticks' # ticks => ClosedFlags(ui'.components) = ClosedFlags(ui.components)]_vars

\* C28: the history never holds more than 20 entries, historyIndex lies
\* between -1 and history.length - 1 and is -1 only while the history is
\* empty, and right after a recorded edit historyIndex is history.length - 1
C28_HistoryBounds ==
    /\ [](/\ Len(ui.history) <= HistoryLimit
          /\ -1 <= ui.historyIndex
          /\ ui.historyIndex <= Len(ui.history) - 1
          /\ (ui.historyIndex = -1 => ui.history = <<>>))
    /\ [][ui'.edits # ui.edits => ui'.historyIndex = Len(ui'.history) - 1]_vars

\* the components and the wires before the edit that is about to be recorded:
\* a component that is being dragged stood where the drag began
BeforeEdit(u) ==
    [components |-> [i \in 1..Len(u.components) |->
                        IF u.components[i].id = u.draggingCompId
                        THEN [u.components[i] EXCEPT !.x = u.dragStartPos.x,
                                                     !.y = u.dragStartPos.y]
                        ELSE u.components[i]],
     wires |-> u.wires]

Canvas(u) == [components |-> u.components, wires |-> u.wires]

\* C29: right after an edit recorded through updateStateWithHistory, the
\* first edit on an empty canvas included, an undo gives the components and
\* the wires of before the edit, and a redo after it those of after the edit
C29_UndoRestores ==
    [][ui'.edits # ui.edits =>
          LET undone == undo(ui', ui')
          IN  /\ Canvas(undone) = BeforeEdit(ui)
              /\ Canvas(redo(undone, undone)) = Canvas(ui')]_vars

\* ---------------------------------------------------------------------------
\* The wire router: findSmartPath of src/utils/geometry.ts.
\* search holds the arguments and the locals of one call.  Nodes are objects:
\* heap lists every Node the call has created, and parent, openList, nodeMap
\* and bestNode refer to a node by its place in heap.
\* ---------------------------------------------------------------------------

GRID_STEP == 10

maxIter == 5000

MathAbs(x) == IF x < 0 THEN -x ELSE x

\* Math.round(v / GRID_STEP) of an integer v: a half rounds towards +Infinity
MathRound(v, d) == (2 * v + d) \div (2 * d)

Snap(p) == [x |-> MathRound(p.x, GRID_STEP) * GRID_STEP,
            y |-> MathRound(p.y, GRID_STEP) * GRID_STEP]

\* `${x},${y}`: one string per pair of integers
key(x, y) == <<x, y>>

DIRS == << [x |-> GRID_STEP, y |-> 0], [x |-> 0, y |-> GRID_STEP],
           [x |-> -GRID_STEP, y |-> 0], [x |-> 0, y |-> -GRID_STEP] >>

isWalkable(q, x, y) ==
    \/ x = q.s.x /\ y = q.s.y
    \/ x = q.e.x /\ y = q.e.y
    \/ key(x, y) \notin q.obstacles

\* the Manhattan distance from (x, y) to p
Manhattan(p, x, y) == MathAbs(p.x - x) + MathAbs(p.y - y)

\* lines 28-76: the locals when the loop is reached
StartSearch(start, end, obstacles, startDir, softObstacles) ==
    LET s == Snap(start)
        e == Snap(end)
        startNode == [x |-> s.x, y |-> s.y, g |-> 0, f |-> Manhattan(e, s.x, s.y),
                      parent |-> NoNode, dir |-> startDir]
    IN  [phase |-> "loop", s |-> s, e |-> e, obstacles |-> obstacles, startDir |-> startDir,
         softObstacles |-> softObstacles, heap |-> <<startNode>>, openList |-> <<1>>,
         closedSet |-> {}, nodeMap |-> (key(s.x, s.y) :> 1), bestNode |-> 1, iter |-> 0,
         path |-> <<>>]

\* openList.sort((a, b) => a.f - b.f): a stable sort, equal f keep their order
RECURSIVE SortByF(_, _, _)
SortByF(heap, list, fs) ==
    IF fs = {} THEN <<>>
    ELSE LET m == CHOOSE v \in fs : \A w \in fs : v <= w
             Lowest(i) == heap[i].f = m
         IN  SelectSeq(list, Lowest) \o SortByF(heap, list, fs \ {m})

Sorted(heap, list) == SortByF(heap, list, {heap[list[k]].f : k \in 1..Len(list)})

\* openList.indexOf(existing), counted from 1; 0 when absent
IndexOf(list, n) ==
    IF \E k \in 1..Len(list) : list[k] = n
    THEN CHOOSE k \in 1..Len(list) : list[k] = n
    ELSE 0

\* the cells around (nx, ny) the proximity penalty looks at
Ring == {d \in {[x |-> dx * GRID_STEP, y |-> dy * GRID_STEP] : dx \in -2..2, dy \in -2..2} :
            d # NoDir}

ProximityPenalty(q, nx, ny) ==
    LET hit == {d \in Ring : key(nx + d.x, ny + d.y) \in q.obstacles}
        near == {d \in hit : MathAbs(d.x) <= GRID_STEP /\ MathAbs(d.y) <= GRID_STEP}
    IN  30 * Cardinality(near) + 10 * Cardinality(hit \ near)

\* lines 97-174: one neighbour of the node current
Visit(q, current, dir) ==
    LET c == q.heap[current]
        nx == c.x + dir.x
        ny == c.y + dir.y
        nKey == key(nx, ny)
        uTurn == \/ c.dir # NoDir /\ c.dir.x = -dir.x /\ c.dir.y = -dir.y
                 \/ /\ c.parent = NoNode
                    /\ q.startDir # NoDir
                    /\ q.startDir.x = -dir.x /\ q.startDir.y = -dir.y
        moveCost == GRID_STEP
                    + (IF c.dir # NoDir /\ (c.dir.x # dir.x \/ c.dir.y # dir.y) THEN 20 ELSE 0)
        isNearPort == \/ Manhattan(q.s, nx, ny) <= GRID_STEP * 3
                      \/ Manhattan(q.e, nx, ny) <= GRID_STEP * 3
        proximityPenalty == IF isNearPort THEN 0 ELSE ProximityPenalty(q, nx, ny)
        g == c.g + moveCost + proximityPenalty
        h == Manhattan(q.e, nx, ny)
        wirePenalty == IF nKey \in q.softObstacles THEN 500 ELSE 0
        known == nKey \in DOMAIN q.nodeMap
        existing == IF known THEN q.nodeMap[nKey] ELSE NoNode
        neighborNode == [x |-> nx, y |-> ny, g |-> g + wirePenalty, f |-> g + wirePenalty + h,
                         parent |-> current, dir |-> dir]
        n == Len(q.heap) + 1
        idx == IndexOf(q.openList, existing)
    IN  IF uTurn \/ ~isWalkable(q, nx, ny) \/ nKey \in q.closedSet
        THEN q
        ELSE IF known /\ ~(g + wirePenalty < q.heap[existing].g)
        THEN q
        ELSE [q EXCEPT !.heap = Append(@, neighborNode),
                       !.nodeMap = IF known THEN [@ EXCEPT ![nKey] = n] ELSE (nKey :> n) @@ @,
                       !.openList = IF known /\ idx # 0 THEN [@ EXCEPT ![idx] = n]
                                    ELSE Append(@, n)]

\* for (const dir of DIRS): the first k directions, in order
RECURSIVE Neighbors(_, _, _)
Neighbors(q, current, k) ==
    IF k = 0 THEN q
    ELSE LET VisitNext(r) == Visit(r, current, DIRS[k])
         IN  Then(Neighbors(q, current, k - 1), VisitNext)

\* lines 79-174: one pass of the loop body
LoopBody(q) ==
    LET sorted == Sorted(q.heap, q.openList)
        current == Head(sorted)
        c == q.heap[current]
        b == q.heap[q.bestNode]
        closer == Manhattan(q.e, c.x, c.y) < Manhattan(q.e, b.x, b.y)
    IN  IF c.x = q.e.x /\ c.y = q.e.y
        THEN [q EXCEPT !.openList = Tail(sorted), !.bestNode = current, !.phase = "exit"]
        ELSE Neighbors([q EXCEPT !.openList = Tail(sorted),
                                 !.closedSet = @ \cup {key(c.x, c.y)},
                                 !.bestNode = IF closer THEN current ELSE @],
                       current, Len(DIRS))

\* while (openList.length > 0 && iter++ < maxIter) { ... }
LoopStep(q) ==
    IF q.openList = <<>> THEN [q EXCEPT !.phase = "exit"]
    ELSE IF ~(q.iter < maxIter) THEN [q EXCEPT !.iter = @ + 1, !.phase = "exit"]
    ELSE LoopBody([q EXCEPT !.iter = @ + 1])

\* lines 186-189: the nodes from the start to node n
RECURSIVE Chain(_, _)
Chain(heap, n) ==
    IF n = NoNode THEN <<>>
    ELSE Append(Chain(heap, heap[n].parent), [x |-> heap[n].x, y |-> heap[n].y])

\* lines 197-204: the corners of path[i..], lastDir being the direction so far
RECURSIVE Corners(_, _, _)
Corners(path, i, lastDir) ==
    IF i > Len(path) - 1 THEN <<>>
    ELSE LET nextDir == [x |-> path[i + 1].x - path[i].x, y |-> path[i + 1].y - path[i].y]
         IN  IF nextDir.x # lastDir.x \/ nextDir.y # lastDir.y
             THEN <<path[i]>> \o Corners(path, i + 1, nextDir)
             ELSE Corners(path, i + 1, lastDir)

Simplified(path) ==
    <<path[1]>>
    \o Corners(path, 2, [x |-> path[2].x - path[1].x, y |-> path[2].y - path[1].y])
    \o <<path[Len(path)]>>

\* lines 177-209: what the call returns
Reconstruct(q) ==
    LET b == q.heap[q.bestNode]
        path == Chain(q.heap, q.bestNode)
    IN  IF q.iter >= maxIter /\ (b.x # q.e.x \/ b.y # q.e.y)
        THEN <<q.s, [x |-> q.s.x, y |-> q.e.y], q.e>>
        ELSE IF Len(path) > 2 THEN Simplified(path) ELSE path

findSmartPath(q) == [q EXCEPT !.phase = "returned", !.path = Reconstruct(q)]

\* the calls the search is followed for
Starts == {[x |-> 0, y |-> 0], [x |-> 14, y |-> -5]}

Ends == {[x |-> 30, y |-> 0], [x |-> -16, y |-> 25], [x |-> 4, y |-> 3]}

StartDirs == {NoDir, DIRS[1], DIRS[3]}

SoftObstacleSets == {{}, {key(10, 0), key(20, 0)}}

\* a wall of three cells between the start and the end
Wall == {key(GRID_STEP, y * GRID_STEP) : y \in -1..1}

\* the four cells next to p
Around(p) == {key(p.x + DIRS[k].x, p.y + DIRS[k].y) : k \in 1..Len(DIRS)}

OpenCalls ==
    [start : Starts, end : Ends, obstacles : {{}, Wall}, startDir : StartDirs,
     softObstacles : SoftObstacleSets]

\* the start, or the end, shut in by obstacles
BlockedCalls ==
    [start : {[x |-> 0, y |-> 0]}, end : {[x |-> 30, y |-> 0]},
     obstacles : {Around([x |-> 0, y |-> 0]), Around([x |-> 30, y |-> 0])},
     startDir : {NoDir, DIRS[1]}, softObstacles : {{}}]

Calls ==
    {StartSearch(c.start, c.end, c.obstacles, c.startDir, c.softObstacles) :
        c \in OpenCalls \cup BlockedCalls}

\* one test of the loop condition, and the loop body when it holds
SearchLoop ==
    /\ search.phase = "loop"
    /\ search' = LoopStep(search)
    /\ UNCHANGED <<solverVars, isSimulating, ui>>

\* the code after the loop
SearchReturn ==
    /\ search.phase = "exit"
    /\ search' = findSmartPath(search)
    /\ UNCHANGED <<solverVars, isSimulating, ui>>

InitPath ==
    /\ search \in Calls
    /\ ui = EmptyCanvas
    /\ components = <<>>
    /\ wires = <<>>
    /\ dt \in DtChoices
    /\ simTime = Zero
    /\ isSimulating = FALSE
    /\ pc = "idle"
    /\ iter = 0
    /\ sol = <<>>
    /\ system = NoSystem
    /\ branchCurrent = <<>>
    /\ ret = "none"
    /\ warned = FALSE
    /\ pre = [c |-> <<>>, w |-> <<>>]
    /\ writes = [c |-> <<>>, w |-> <<>>]
    /\ ticks = 0

NextPath ==
    \/ SearchLoop
    \/ SearchReturn

SpecPath == InitPath /\ [][NextPath]_vars

\* C30: whenever findSmartPath has returned, it has expanded at most maxIter
\* nodes, and the polyline it returned starts at the start snapped to the grid,
\* ends at the end snapped to the grid and has axis-aligned segments only.
C30_SmartPath ==
    search.phase = "returned" =>
        /\ search.iter <= maxIter + 1
        /\ Cardinality(search.closedSet) <= maxIter
        /\ search.path # <<>>
        /\ search.path[1] = search.s
        /\ search.path[Len(search.path)] = search.e
        /\ \A k \in 1..Len(search.path) - 1 :
              \/ search.path[k].x = search.path[k + 1].x
              \/ search.path[k].y = search.path[k + 1].y

=========================================================================
